---- MODULE Spec2Model ----
(***************************************************************************)
(* A model of sketchatone's real-time core: the strum detector             *)
(* (strummer/strummer.py) and the MIDI output backends with their timed    *)
(* note-offs (midi/rtmidi_backend.py, midi/jack_backend.py).               *)
(*                                                                         *)
(* Units.  x and pressure are the floats of the source in hundredths       *)
(* (0.5 is 50, the threshold 0.1 is 10).  Detector time is in              *)
(* milliseconds, one per strum() call.  MIDI velocities are the integers   *)
(* of the source.  int() of the source is floor on the non-negative        *)
(* values it is applied to, written \div here.                             *)
(***************************************************************************)
EXTENDS Integers, Sequences, FiniteSets, TLC

\* ------------------------------------------------------------- bounds
\* strum() calls explored from construction.
MaxCalls == 6
\* send_note() calls, release_notes() calls, and clock ticks of the MIDI model.
MaxSends == 2
MaxReleases == 1
\* send_raw_note() calls
MaxRawSends == 1
MaxChannelSets == 1
MaxClock == 2
\* Capacity of the JACK event queue in the model; it stands for
\* queue.Queue(maxsize=1000), which TLC cannot fill within the other bounds.
QueueMaxSize == 2
\* Replacements of the notes and calls of configure() between strum() calls.
MaxReconfigs == 1
\* emit_tablet_event() / emit_strum_event() calls on the event bus.
MaxEmits == 3
\* update-config messages handled
MaxUpdates == 2
\* note-on and note-off messages received from the MIDI input, and how far
\* the wall clock runs, in ticks of 50 ms
MaxMidiEvents == 3
\* messages of clients that are no protocol message
MaxMessages == 2
\* actions executed by the action dispatcher
MaxActions == 3
\* HID frames handed to handle_packet
MaxPackets == 4
\* the largest number of semitones a note is transposed by, up or down
MaxSemitones == 13
\* schedule() calls, and the ticks of the scheduler's clock
MaxSchedules == 2
MaxSchedClock == 2
MaxWall == 3

\* ---------------------------------------------------------- constants
\* Strummer.buffer_max_samples
buffer_max_samples == 3
\* Velocity range of the initial tap: int(20 + normalized * 107), max(20, min(127, .))
VelocityFloor == 20
VelocityCeil == 127
VelocitySpan == 107
\* pressure_threshold = 0.1 at construction, in hundredths
DefaultThreshold == 10
\* pressure 1.0 and width 1.0, in hundredths
Unit == 100
\* time_delta = 0.001 s when there is no previous sample, in milliseconds
FirstTimeDelta == 1

\* MIDI wire: note-on 0x90 + ch, note-off 0x80 + ch with release velocity 0x40
NoteOnStatus == 144
NoteOffStatus == 128
NoteOffVelocity == 64
\* disconnect(): 0xB0 + ch with CC 123 (all notes off) and CC 121 (reset all
\* controllers), 0xE0 + ch with 0x00 0x40 (pitch bend centre)
ControlChangeStatus == 176
PitchBendStatus == 224
AllNotesOff == 123
ResetAllControllers == 121
PitchCenterMsb == 64
\* range(16): the MIDI channels
NumChannels == 16
\* len(Note.sharp_notations)
SemitonesPerOctave == 12

\* Pitch-bend throttle of handle_packet, time in ticks of 0.1 ms and bend in
\* units of 0.00001: send after 0.02 s, or after 0.005 s if the value changed
\* by more than 0.01
ThrottleTicks == 200
FastPathTicks == 50
BendChange == 1000

\* The debounce delay of a 'removed' event, 0.1 s, in ticks of 50 ms
DebounceTicks == 2

\* stop(): self._thread.join(timeout=1.0), in ticks of the scheduler's clock
JoinTimeout == 1

\* TransposeConfig.semitones as configured
DefaultSemitones == 12

\* NoteObject(notation, octave, secondary)
NoteObject(notation, octave) ==
    [notation |-> notation, octave |-> octave, secondary |-> FALSE]

C4 == NoteObject("C", 4)
E4 == NoteObject("E", 4)
G4 == NoteObject("G", 4)

\* The notes the detector is given before the first frame (initialNotes).
InitialNotes == <<C4, E4, G4>>

\* A note string f"{notation}{octave}" with a one-digit octave, as the pair of
\* its notation and its octave character
NoteStr(notation, octave) == <<notation, octave>>
\* A chord symbol, as the pair of its root and its chord type ("" for none)
ChordSymbol(root, chord_type) == <<root, chord_type>>

\* The configuration the server starts with, and what update-config sets:
\* initialNotes lists, chords (<<>> for null), note spreads.
InitialNoteStrings == <<NoteStr("C", 4), NoteStr("E", 4), NoteStr("G", 4)>>
NoteStringLists == {<<>>, <<NoteStr("C#", 4)>>, InitialNoteStrings}
NoChord == <<>>
ChordValues == {NoChord, <<ChordSymbol("A", "m")>>, <<ChordSymbol("G", "5")>>}
LowerSpreads == {0, 2}
\* The keys played on the MIDI input, as MIDI note numbers (A3, C4, C#4), and
\* the chord the server may be configured with
MidiNoteNumbers == {57, 60, 61}
ConfiguredChords == {NoChord, <<ChordSymbol("C", "")>>}
UpperSpreads == {0, 5}
\* The action definitions bound to buttons: a name and its parameters
ActionDef(name, params) == [name |-> name, params |-> params]
ActionDefs ==
    {ActionDef("toggle-repeater", <<>>),
     ActionDef("toggle-transpose", <<>>),
     ActionDef("transpose", <<7>>),
     ActionDef("transpose", <<>>),
     ActionDef("set-strum-notes", <<<<NoteStr("C#", 4), NoteStr("E", 4)>>>>),
     ActionDef("set-strum-notes", <<<<>>>>),
     ActionDef("set-strum-chord", <<ChordSymbol("A", "m")>>),
     ActionDef("set-chord-in-progression", <<"c-major-pop", 5>>),
     ActionDef("set-chord-in-progression", <<"bogus", 1>>),
     ActionDef("increment-chord-in-progression", <<"c-major-pop">>)}
\* Client messages that are no protocol message: text that is no JSON, JSON
\* texts of a value that is no object, and an object of an unknown type
JsonText(kind, type) == [json |-> kind, type |-> type]
MalformedMessages == {JsonText("invalid", ""), JsonText("array", ""),
                      JsonText("number", ""), JsonText("null", ""),
                      JsonText("object", "bogus")}
\* Dotted paths of update-config that name no field of the configuration, as
\* the sequences of their parts: an unknown part on the way, an unknown last
\* part, a read-only property, a method
BadPaths == {<<"strummer", "invalid", "path">>,
             <<"strummer", "strumming", "bogus">>,
             <<"strummer", "notes">>,
             <<"strummer", "strumming", "toDict">>}

\* Frames fed to strum(): x and pressure in hundredths of [0, 1].
Xs == {10, 50, 95}
Pressures == {0, 5, 10, 30, 50, 60, 80, 100}

\* What send_note() is called with: notes, velocities and durations (in ticks).
SentNotes == {C4, E4}
Velocities == {100}
Durations == {1, 2}
\* The note held, and how long, when disconnect() comes into play.
HeldNote == C4
HeldDurations == {1}
\* What send_raw_note() is called with for a strum release: the MIDI note
\* number of the held note, and the release channel
RawNotes == {48}
RawChannels == {<<0>>, <<1>>}
\* Optional[int] is <<>> for None and <<c>> for the channel c.
NoChannel == <<>>
\* The default channel the backend is constructed with.
DefaultChannels == {NoChannel, <<1>>}
Backends == {"rtmidi", "jack"}
\* The channels set_channel() is given: the first, the second, the last.
SetChannels == {0, 1, 15}
\* Note sequences the notes setter is given, and thresholds configure() is
\* given (0.1, 0.5 and 1.0 in hundredths).
NoteSequences == {<<C4, E4, G4>>, <<C4, E4>>, <<C4>>, <<>>}
Thresholds == {10, 50, 100}
\* Payloads given to the event bus, and the WebSocket clients that may connect.
TabletPayloads == {"a", "b"}
StrumPayloads == {"s", "t"}
ClientIds == {1, 2}
\* The notes given to transpose: every spelling of Note.sharp_notations,
\* Note.flat_notations and Note.odd_notations, in a low, a middle and a high
\* octave
FlatNotations ==
    <<"C", "Db", "D", "Eb", "E", "F", "Gb", "G", "Ab", "A", "Bb", "B">>
OddNotations == <<"B#", "Cb", "E#", "Fb">>
TransposeOctaves == {0, 4, 9}
TransposeSemitones == (0 - MaxSemitones)..MaxSemitones
\* The note keys and delays given to schedule()
SchedKeys == {<<48, <<0>>>>, <<52, <<0>>>>}
SchedDelays == {1, 2}
\* The frames the HID reader hands to handle_packet
PacketXs == {10, 95}
PacketPressures == {0, 100}
\* Scenario S4 of the design: 1,000 frames at 10 kHz, one per tick, and the
\* amount by which the mapped bend grows from frame to frame (0.00001: the
\* whole run stays within 0.01; 0.002: from -1 almost to 1).
S4FrameTicks == 0..999
BendSteps == {1, 200}
BendStart == -100000

Max(a, b) == IF a >= b THEN a ELSE b
Min(a, b) == IF a <= b THEN a ELSE b

VARIABLES
    \* Strummer fields
    notes,
    last_x,
    last_strummed_index,
    last_pressure,
    last_timestamp,
    pressure_velocity,
    pressure_threshold,
    last_strum_velocity,
    pressure_buffer,
    pending_tap_index,
    \* the clock read by time.time(), in ms
    now,
    \* the most recent strum() call: its arguments, and what it returned
    call,
    ret,
    \* history of the calls so far, for the properties
    strum_owed,
    strummed_in_press,
    releases_since_strum,
    below_then_above,
    s1_step,
    \* MIDI output backend: which implementation, _connected, the port object
    \* (_midi_out / _jack_client is not None), the default _channel
    backend,
    connected,
    port,
    channel,
    \* _active_note_timers: note_key -> timer id; timers: every
    \* threading.Timer created, by id
    active_note_timers,
    timers,
    \* JACK's _midi_queue; the set of messages that reached the MIDI port; and,
    \* per <<note, channel>>, the last message the backend accepted for it
    \* (sent to the port, or put in the queue)
    midi_queue,
    wire,
    last_message,
    \* the clock the timers run on, in ticks
    clock,
    \* the thread calling the backend: where it is, and its locals
    pc,
    cur,
    \* calls made so far
    sends,
    releases,
    raw_sends,
    channel_sets,
    \* disconnect() has returned and connect() has not been called since
    disconnected,
    \* notes replacements and configure() calls made so far
    reconfigs,
    \* StrummerEventBus: _buffer (its tablet and strum slots, <<>> for None),
    \* _has_new_data, _paused
    bus_buffer,
    has_new_data,
    paused,
    \* StrummerWebSocketServer.clients, and where each client's _handle_client
    \* coroutine is
    clients,
    client_phase,
    \* history: emissions made; the payloads emitted per slot since the last
    \* flush (and whether the strum in the buffer, and the one the last flush
    \* copied, was emitted while the bus was paused), and those the last flush
    \* covered; buffer copies handed to the listener and messages broadcast
    emits,
    since_flush,
    strum_emitted_paused,
    last_coalesced,
    handed,
    last_handed,
    broadcasts,
    last_broadcast,
    \* handle_packet's pitch-bend throttle: frames handled so far, the growth
    \* of the mapped bend per frame, _last_pitch_bend_time,
    \* _last_pitch_bend_value (<<>> for None), and the send_pitch_bend() calls
    frames,
    bend_step,
    last_pitch_bend_time,
    last_pitch_bend_value,
    pitch_bends_sent,
    \* config.strummer.strumming: initial_notes, chord (<<>> for None),
    \* lower_note_spread, upper_note_spread
    initial_notes,
    chord,
    lower_note_spread,
    upper_note_spread,
    \* the _broadcast_to_all_clients tasks created for config messages and
    \* not run yet; per client, the config messages it was sent
    config_tasks,
    config_inbox,
    \* update-config messages handled, and the path and value of the last one
    updates,
    last_update,
    \* an attribute named to_dict has been set on a configuration object, in
    \* place of its to_dict method
    to_dict_shadowed,
    \* the messages handled by _handle_client_message that are no protocol
    \* message, and the last of them
    client_messages,
    last_client_message,
    \* Actions: note_repeater.active, transpose.active and .semitones of its
    \* config, progression_state (name <<>> for None), the config_changed and
    \* notes_changed signals emitted so far, and the actions executed
    repeater_active,
    transpose_active,
    transpose_semitones,
    progression_state,
    signals,
    actions_executed,
    \* handle_packet: the HID frames handed to it, the frame it is handling
    \* (its x and pressure), the frames it has returned from; history: the
    \* number of the frame whose data each slot of the bus buffer was last
    \* given (0 for none)
    packets,
    packet,
    handled,
    deposited,
    \* a note and the semitones it is transposed by; the result of
    \* note.transpose(semitones), and of transposing that by -semitones
    \* (<<>> before the call)
    tr_note,
    tr_semitones,
    tr_there,
    tr_back,
    \* NoteScheduler: _running; the ids of the entries in the heap _events;
    \* _event_map (key -> entry id); every ScheduledEvent created, by id; where
    \* the worker thread is in _run, and its next_event (0 for none); the
    \* clock read by time.time(); where stop() is, and when its join gives up;
    \* history: the callbacks invoked, in order
    sch_running,
    sch_events,
    sch_event_map,
    sch_entries,
    sch_worker,
    sch_next,
    sch_clock,
    sch_stop,
    sch_join_deadline,
    sch_invoked,
    \* midi_input._notes; _midi_input_debounce_timer (<<>> for None, else the
    \* tick it is due at); the held notes a running debounced_update has read
    \* and not applied yet (<<>> if none is running); the wall clock
    held,
    debounce_timer,
    debounce_read,
    wall,
    \* MIDI messages received, and the last step of the MIDI input path: its
    \* kind and the note list it carries
    midi_events,
    midi_step,
    \* the note events whose _on_note_down, on the callback thread of another
    \* input port, has left the lock and not called _emit_note_event yet
    port_events

detVars == <<notes, last_x, last_strummed_index, last_pressure, last_timestamp,
             pressure_velocity, pressure_threshold, last_strum_velocity,
             pressure_buffer, pending_tap_index>>
envVars == <<now, call, ret>>
histVars == <<strum_owed, strummed_in_press, releases_since_strum,
              below_then_above, s1_step>>

midiVars == <<backend, connected, port, channel, active_note_timers, timers,
              midi_queue, wire, last_message, clock, pc, cur, sends,
              releases, raw_sends, channel_sets, disconnected>>

cfgVars == <<reconfigs>>

busVars == <<bus_buffer, has_new_data, paused>>
clientVars == <<clients, client_phase>>
busHistVars == <<emits, since_flush, strum_emitted_paused, last_coalesced,
                 handed, last_handed, broadcasts, last_broadcast>>
serverVars == <<busVars, clientVars, busHistVars>>

bendVars == <<frames, bend_step, last_pitch_bend_time, last_pitch_bend_value,
              pitch_bends_sent>>
confVars == <<initial_notes, chord, lower_note_spread, upper_note_spread,
              config_tasks, config_inbox, updates, last_update,
              to_dict_shadowed>>
midiInVars == <<held, debounce_timer, debounce_read, wall, midi_events,
                midi_step, port_events>>
msgVars == <<client_messages, last_client_message>>
actVars == <<repeater_active, transpose_active, transpose_semitones,
             progression_state, signals, actions_executed>>
pktVars == <<packets, packet, handled, deposited>>
noteVars == <<tr_note, tr_semitones, tr_there, tr_back>>
schedVars == <<sch_running, sch_events, sch_event_map, sch_entries,
               sch_worker, sch_next, sch_clock, sch_stop, sch_join_deadline,
               sch_invoked>>
orchVars == <<bendVars, confVars, midiInVars, msgVars, actVars, pktVars,
              noteVars, schedVars>>

vars == <<detVars, envVars, histVars, midiVars, cfgVars, serverVars, orchVars>>

\* ------------------------------------------------------ return values
None == [type |-> "none"]
StrumEvent(ns) == [type |-> "strum", notes |-> ns]
ReleaseEvent(v) == [type |-> "release", velocity |-> v]
\* strum() left by an exception instead of a return
Raised(error) == [type |-> "raise", error |-> error]

\* return {'type': 'release', ...} if release_velocity > 0, else None
ReleaseResultAboveFloor(release_velocity) ==
    IF release_velocity > VelocityFloor
    THEN ReleaseEvent(release_velocity)
    ELSE None
ReleaseResultAlways(release_velocity) == ReleaseEvent(release_velocity)
ReleaseResult(release_velocity) ==
    IF release_velocity > 0 THEN ReleaseEvent(release_velocity) ELSE None

\* ------------------------------------------------- pure computations
\* index = min(int(x / string_width), len(notes) - 1), string_width = width / len(notes)
StringIndex(x, n) == Min((x * n) \div Unit, n - 1)

\* normalized = max(0, min(1, (p - thr) / (1 - thr)));
\* midi_velocity = max(20, min(127, int(20 + normalized * 107)))
TapVelocity(pressure, threshold) ==
    LET num == Max(0, Min(Unit - threshold, pressure - threshold))
    IN Max(VelocityFloor,
           Min(VelocityCeil,
               VelocityFloor + (num * VelocitySpan) \div (Unit - threshold)))

\* midi_velocity = max(20, int(pressure * 127))
CrossVelocityNoFloor(pressure) == (pressure * VelocityCeil) \div Unit
CrossVelocity(pressure) ==
    Max(VelocityFloor, (pressure * VelocityCeil) \div Unit)

\* range(last + 1, index + 1) moving right, range(last - 1, index - 1, -1) moving left
CrossIndicesInclusive(last, index) ==
    IF last < index
    THEN [k \in 1..(index - last + 1) |-> last + k - 1]
    ELSE [k \in 1..(last - index + 1) |-> last - k + 1]
CrossIndices(last, index) ==
    IF last < index
    THEN [k \in 1..(index - last) |-> last + k]
    ELSE [k \in 1..(last - index) |-> last - k]

\* pressure_buffer = [(last_pressure, last_timestamp), (pressure, current_time)]
SeedBufferCurrentOnly(lp, lt, p, t) == << <<p, t>> >>
SeedBuffer(lp, lt, p, t) == << <<lp, lt>>, <<p, t>> >>

\* len(self.pressure_buffer) >= self.buffer_max_samples
BufferFullStrict(buffer) == Len(buffer) > buffer_max_samples
BufferFull(buffer) == Len(buffer) >= buffer_max_samples

\* pressure_down = last_pressure < threshold and pressure >= threshold
PressureDown(last, pressure, threshold) ==
    last < threshold /\ pressure >= threshold

\* cold start: has_sufficient_pressure and last_strummed_index == -1 and
\* pending_tap_index == -1
ColdStartAnyString(pressure, threshold, last_strummed, pending) ==
    pressure >= threshold /\ pending = -1
ColdStart(pressure, threshold, last_strummed, pending) ==
    pressure >= threshold /\ last_strummed = -1 /\ pending = -1

\* pressure_up = last_pressure >= threshold and pressure < threshold
PressureUpStrict(last, pressure, threshold) ==
    last > threshold /\ pressure < threshold
PressureUp(last, pressure, threshold) ==
    last >= threshold /\ pressure < threshold

\* pressure_velocity = pressure_delta / time_delta if time_delta > 0 else 0.0,
\* kept as the exact fraction <<numerator, denominator>>
PressureVelocity(delta, time_delta) ==
    IF time_delta > 0 THEN <<delta, time_delta>> ELSE <<0, 1>>

\* ------------------------------------------------------------ scenario
\* Scenario S1 of the design: the frames fed at x = 0.5, then the release.
\* s1_step counts the calls made while they are a prefix of it, and is -1 after.
S1Frames == << <<50, 0>>, <<50, 30>>, <<50, 60>>, <<50, 80>>, <<50, 0>> >>

\* ---------------------------------------------------------------- Init
\* Strummer.__init__, followed by the notes setter as the server and the
\* tests' setup_method do before the first frame.
InitDetector ==
    /\ notes = InitialNotes
    /\ last_x = -Unit
    /\ last_strummed_index = -1
    /\ last_pressure = 0
    /\ last_timestamp = 0
    /\ pressure_velocity = <<0, 1>>
    /\ pressure_threshold = DefaultThreshold
    /\ last_strum_velocity = 0
    /\ pressure_buffer = <<>>
    /\ pending_tap_index = -1

InitEnv ==
    /\ now = 0
    /\ call = [x |-> 0, pressure |-> 0, index |-> -1]
    /\ ret = None
    /\ strum_owed = FALSE
    /\ strummed_in_press = FALSE
    /\ releases_since_strum = 0
    /\ below_then_above = FALSE
    /\ s1_step = 0
    /\ reconfigs = 0

\* RtMidiBackend.__init__ / JackMidiBackend.__init__
InitBackend(kind, default_channel) ==
    /\ backend = kind
    /\ connected = FALSE
    /\ port = FALSE
    /\ channel = default_channel
    /\ active_note_timers = <<>>
    /\ timers = <<>>
    /\ midi_queue = <<>>
    /\ wire = {}
    /\ last_message = <<>>
    /\ clock = 0
    /\ pc = "idle"
    /\ cur = <<>>
    /\ sends = 0
    /\ releases = 0
    /\ raw_sends = 0
    /\ channel_sets = 0
    /\ disconnected = FALSE

\* CombinedEventData: the tablet and strum slots of the bus buffer
CombinedEventData(tablet, strum) == [tablet |-> tablet, strum |-> strum]

\* StrummerEventBus.__init__ and StrummerWebSocketServer.__init__, then
\* run_server: the flush loop is started and the bus paused (no clients).
InitServer ==
    /\ bus_buffer = CombinedEventData(<<>>, <<>>)
    /\ has_new_data = FALSE
    /\ paused = TRUE
    /\ clients = {}
    /\ client_phase = [c \in ClientIds |-> "new"]
    /\ emits = 0
    /\ since_flush = CombinedEventData(<<>>, <<>>)
    /\ strum_emitted_paused = [buffered |-> FALSE, handed |-> FALSE]
    /\ last_coalesced = CombinedEventData(<<>>, <<>>)
    /\ handed = 0
    /\ last_handed = CombinedEventData(<<>>, <<>>)
    /\ broadcasts = 0
    /\ last_broadcast = [data |-> CombinedEventData(<<>>, <<>>), to |-> {}]

\* handle_packet before its first frame: _last_pitch_bend_time = 0 and
\* _last_pitch_bend_value = None (set on first use)
InitPitchBend(step) ==
    /\ frames = 0
    /\ bend_step = step
    /\ last_pitch_bend_time = 0
    /\ last_pitch_bend_value = <<>>
    /\ pitch_bends_sent = 0

\* The configuration the server is started with; no config message sent yet
InitConfig(configured_chord) ==
    /\ initial_notes = InitialNoteStrings
    /\ chord = configured_chord
    /\ lower_note_spread = 0
    /\ upper_note_spread = 0
    /\ config_tasks = <<>>
    /\ config_inbox = [c \in ClientIds |-> <<>>]
    /\ updates = 0
    /\ last_update = <<>>
    /\ to_dict_shadowed = FALSE

\* NoteRepeaterConfig, TransposeConfig, ChordProgressionState.__init__
InitActions ==
    /\ repeater_active = FALSE
    /\ transpose_active = FALSE
    /\ transpose_semitones = DefaultSemitones
    /\ progression_state = [progression_name |-> <<>>, chords |-> <<>>,
                            current_index |-> 0]
    /\ signals = [config_changed |-> 0, notes_changed |-> 0]
    /\ actions_executed = 0

\* NoteScheduler.__init__
InitScheduler(started) ==
    /\ sch_running = started
    /\ sch_events = {}
    /\ sch_event_map = <<>>
    /\ sch_entries = <<>>
    /\ sch_worker = IF started THEN "test" ELSE "none"
    /\ sch_next = 0
    /\ sch_clock = 0
    /\ sch_stop = "no"
    /\ sch_join_deadline = 0
    /\ sch_invoked = <<>>
\* no scheduler is created (get_scheduler has no caller)
InitNoScheduler == InitScheduler(FALSE)

\* No note is being transposed
InitNoTranspose ==
    /\ tr_note = C4
    /\ tr_semitones = 0
    /\ tr_there = <<>>
    /\ tr_back = <<>>

\* No HID frame has arrived
InitPackets ==
    /\ packets = 0
    /\ packet = [x |-> 0, pressure |-> 0]
    /\ handled = 0
    /\ deposited = [tablet |-> 0, strum |-> 0]

\* RtMidiInput.__init__, and no debounce timer; no client message yet
InitMidiInput ==
    /\ held = <<>>
    /\ debounce_timer = <<>>
    /\ debounce_read = <<>>
    /\ wall = 0
    /\ midi_events = 0
    /\ midi_step = [kind |-> "none", notes |-> <<>>]
    /\ port_events = {}
    /\ client_messages = 0
    /\ last_client_message = <<>>
    /\ InitActions
    /\ InitPackets

\* The detector with a backend constructed and left alone.
Init ==
    /\ InitDetector
    /\ InitEnv
    /\ InitBackend("rtmidi", NoChannel)
    /\ InitServer
    /\ InitPitchBend(0)
    /\ InitConfig(NoChord)
    /\ InitMidiInput
    /\ InitNoTranspose
    /\ InitNoScheduler

\* Either backend, constructed with either default channel.
InitMidi ==
    /\ InitDetector
    /\ InitEnv
    /\ \E kind \in Backends, default_channel \in DefaultChannels :
           InitBackend(kind, default_channel)
    /\ InitServer
    /\ InitPitchBend(0)
    /\ InitConfig(NoChord)
    /\ InitMidiInput
    /\ InitNoTranspose
    /\ InitNoScheduler

\* ------------------------------------------------------------- history
\* What the properties need to remember of the calls made so far; reads ret'.
Record(x, pressure, index) ==
    /\ call' = [x |-> x, pressure |-> pressure, index |-> index]
    /\ strum_owed' = CASE ret'.type = "strum" -> TRUE
                       [] ret'.type = "release" -> FALSE
                       [] OTHER -> strum_owed
    /\ strummed_in_press' = /\ pressure >= pressure_threshold
                            /\ (strummed_in_press \/ ret'.type = "strum")
    /\ releases_since_strum' = CASE ret'.type = "strum" -> 0
                                 [] ret'.type = "release" ->
                                        releases_since_strum + 1
                                 [] OTHER -> releases_since_strum
    /\ below_then_above' = /\ now > 0
                           /\ call.pressure < pressure_threshold
                           /\ pressure >= pressure_threshold
    /\ s1_step' = IF /\ s1_step = now
                     /\ now < Len(S1Frames)
                     /\ S1Frames[now + 1] = <<x, pressure>>
                  THEN now + 1
                  ELSE -1

\* --------------------------------------------------- Strummer.strum
\* pressure_up: reset the detector, report the last velocity if there was a strum
StrumRelease(pressure, current_time) ==
    /\ last_strummed_index' = -1
    /\ last_pressure' = pressure
    /\ last_timestamp' = current_time
    /\ pressure_velocity' = <<0, 1>>
    /\ pressure_buffer' = <<>>
    /\ pending_tap_index' = -1
    /\ last_strum_velocity' = 0
    /\ ret' = ReleaseResult(last_strum_velocity)
    /\ UNCHANGED <<notes, last_x, pressure_threshold>>

\* new tap (seeded with the sample before the threshold) or cold start
StrumStartBuffer(x, pressure, current_time, index, pv, buffer) ==
    /\ pressure_buffer' = buffer
    /\ pending_tap_index' = index
    /\ last_x' = x
    /\ last_pressure' = pressure
    /\ last_timestamp' = current_time
    /\ pressure_velocity' = pv
    /\ ret' = None
    /\ UNCHANGED <<notes, last_strummed_index, pressure_threshold,
                   last_strum_velocity>>

\* continue buffering; the sample that fills the buffer triggers the tap
StrumBuffering(x, pressure, current_time, pv) ==
    LET appended == Append(pressure_buffer, <<pressure, current_time>>)
    IN
    /\ last_x' = x
    /\ last_pressure' = pressure
    /\ last_timestamp' = current_time
    /\ pressure_velocity' = pv
    /\ IF BufferFull(appended) /\ pressure_threshold = Unit
       THEN \* (current_pressure - threshold) / (1.0 - threshold) divides by zero
            /\ pressure_buffer' = appended
            /\ ret' = Raised("ZeroDivisionError")
            /\ UNCHANGED <<last_strum_velocity, last_strummed_index,
                           pending_tap_index>>
       ELSE IF BufferFull(appended) /\ pending_tap_index >= Len(notes)
       THEN \* self._notes[self.pending_tap_index] is out of range
            /\ pressure_buffer' = appended
            /\ last_strum_velocity' = TapVelocity(pressure, pressure_threshold)
            /\ ret' = Raised("IndexError")
            /\ UNCHANGED <<last_strummed_index, pending_tap_index>>
       ELSE IF BufferFull(appended)
       THEN LET midi_velocity == TapVelocity(pressure, pressure_threshold)
                note == notes[pending_tap_index + 1]
            IN
            /\ last_strum_velocity' = midi_velocity
            /\ last_strummed_index' = pending_tap_index
            /\ pending_tap_index' = -1
            /\ pressure_buffer' = <<>>
            /\ ret' = StrumEvent(<<[note |-> note, velocity |-> midi_velocity]>>)
       ELSE /\ pressure_buffer' = appended
            /\ ret' = None
            /\ UNCHANGED <<last_strum_velocity, last_strummed_index,
                           pending_tap_index>>
    /\ UNCHANGED <<notes, pressure_threshold>>

\* strumming across strings, or nothing to report
StrumAcross(x, pressure, current_time, index, pv) ==
    /\ last_x' = x
    /\ last_pressure' = pressure
    /\ last_timestamp' = current_time
    /\ pressure_velocity' = pv
    /\ IF /\ pressure >= pressure_threshold
          /\ last_strummed_index # -1
          /\ last_strummed_index # index
          /\ \E k \in DOMAIN CrossIndices(last_strummed_index, index) :
                 CrossIndices(last_strummed_index, index)[k] >= Len(notes)
       THEN \* self._notes[i] is out of range in the loop over the indices
            /\ ret' = Raised("IndexError")
            /\ UNCHANGED <<last_strum_velocity, last_strummed_index>>
       ELSE IF /\ pressure >= pressure_threshold
               /\ last_strummed_index # -1
               /\ last_strummed_index # index
       THEN LET midi_velocity == CrossVelocity(pressure)
                indices == CrossIndices(last_strummed_index, index)
                notes_to_play ==
                    [k \in 1..Len(indices) |->
                        [note |-> notes[indices[k] + 1], velocity |-> midi_velocity]]
            IN
            /\ last_strum_velocity' = midi_velocity
            /\ last_strummed_index' = index
            /\ ret' = IF Len(notes_to_play) > 0
                      THEN StrumEvent(notes_to_play)
                      ELSE None
       ELSE /\ ret' = None
            /\ UNCHANGED <<last_strum_velocity, last_strummed_index>>
    /\ UNCHANGED <<notes, pressure_threshold, pressure_buffer, pending_tap_index>>

strum(x, pressure) ==
    /\ now < MaxCalls
    /\ now' = now + 1
    /\ IF Len(notes) = 0
       THEN /\ ret' = None
            /\ UNCHANGED detVars
            /\ Record(x, pressure, -1)
       ELSE LET current_time == now + 1
                index == StringIndex(x, Len(notes))
                time_delta == IF last_timestamp > 0
                              THEN current_time - last_timestamp
                              ELSE FirstTimeDelta
                pv == PressureVelocity(pressure - last_pressure, time_delta)
                pressure_down ==
                    PressureDown(last_pressure, pressure, pressure_threshold)
                pressure_up ==
                    PressureUp(last_pressure, pressure, pressure_threshold)
            IN
            /\ IF pressure_up
               THEN StrumRelease(pressure, current_time)
               ELSE IF /\ pressure_down
                       /\ (last_strummed_index = -1 \/ last_strummed_index # index)
               THEN StrumStartBuffer(x, pressure, current_time, index, pv,
                        SeedBuffer(last_pressure, last_timestamp, pressure, current_time))
               ELSE IF ColdStart(pressure, pressure_threshold,
                                 last_strummed_index, pending_tap_index)
               THEN StrumStartBuffer(x, pressure, current_time, index, pv,
                        << <<pressure, current_time>> >>)
               ELSE IF /\ pending_tap_index # -1
                       /\ Len(pressure_buffer) < buffer_max_samples
               THEN StrumBuffering(x, pressure, current_time, pv)
               ELSE StrumAcross(x, pressure, current_time, index, pv)
            /\ Record(x, pressure, index)
    /\ UNCHANGED <<midiVars, cfgVars, serverVars, orchVars>>

\* The HID thread feeds frames to the detector.
Frame == \E x \in Xs, pressure \in Pressures : strum(x, pressure)

Next == Frame

Spec == Init /\ [][Next]_vars

\* ------------------------------------------- reconfiguration between calls
\* The notes setter: the sequence is replaced between two strum() calls.
SetNotes(ns) ==
    /\ reconfigs < MaxReconfigs
    /\ ns # notes
    /\ notes' = ns
    /\ reconfigs' = reconfigs + 1
    /\ UNCHANGED <<last_x, last_strummed_index, last_pressure, last_timestamp,
                   pressure_velocity, pressure_threshold, last_strum_velocity,
                   pressure_buffer, pending_tap_index>>
    /\ UNCHANGED <<envVars, histVars, midiVars, serverVars, orchVars>>

\* Strummer.configure: the threshold is replaced (velocity_scale is not read
\* by strum() and is not kept)
Configure(threshold) ==
    /\ reconfigs < MaxReconfigs
    /\ threshold # pressure_threshold
    /\ pressure_threshold' = threshold
    /\ reconfigs' = reconfigs + 1
    /\ UNCHANGED <<notes, last_x, last_strummed_index, last_pressure,
                   last_timestamp, pressure_velocity, last_strum_velocity,
                   pressure_buffer, pending_tap_index>>
    /\ UNCHANGED <<envVars, histVars, midiVars, serverVars, orchVars>>

ReplaceNotes == \E ns \in NoteSequences : SetNotes(ns)
Reconfigure == \E threshold \in Thresholds : Configure(threshold)

NextReconf == Frame \/ ReplaceNotes \/ Reconfigure

SpecReconf == Init /\ [][NextReconf]_vars

\* ==================================================== event bus, clients

\* emit_tablet_event: self._buffer.tablet = data (overwrites the previous one)
KeepFirstTablet(buf, data) ==
    IF buf.tablet = <<>> THEN [buf EXCEPT !.tablet = <<data>>] ELSE buf
BufferWithTablet(buf, data) == [buf EXCEPT !.tablet = <<data>>]

\* emit_strum_event: self._buffer.strum = data
BufferWithoutStrum(buf, data) == buf
BufferWithStrum(buf, data) == [buf EXCEPT !.strum = <<data>>]

\* flush(): the strum slot is cleared after the copy, the tablet slot persists
BufferAfterFlush(buf) == [buf EXCEPT !.strum = <<>>]

EmitTabletEvent(data) ==
    /\ emits < MaxEmits
    /\ bus_buffer' = BufferWithTablet(bus_buffer, data)
    /\ has_new_data' = TRUE
    /\ emits' = emits + 1
    /\ since_flush' = [since_flush EXCEPT !.tablet = Append(@, data)]
    /\ UNCHANGED <<paused, clientVars, strum_emitted_paused, last_coalesced, handed, last_handed,
                   broadcasts, last_broadcast>>
    /\ UNCHANGED <<detVars, envVars, histVars, midiVars, cfgVars, orchVars>>

EmitStrumEvent(data) ==
    /\ emits < MaxEmits
    /\ bus_buffer' = BufferWithStrum(bus_buffer, data)
    /\ has_new_data' = TRUE
    /\ emits' = emits + 1
    /\ since_flush' = [since_flush EXCEPT !.strum = Append(@, data)]
    /\ strum_emitted_paused' = [strum_emitted_paused EXCEPT !.buffered = paused]
    /\ UNCHANGED <<paused, clientVars, last_coalesced, handed, last_handed,
                   broadcasts, last_broadcast>>
    /\ UNCHANGED <<detVars, envVars, histVars, midiVars, cfgVars, orchVars>>

\* _broadcast_to_all_clients: the message is sent to every client of the set;
\* those whose send fails or times out are discarded from it.
BroadcastToAllClients(data, failed) ==
    /\ clients' = clients \ failed
    /\ broadcasts' = broadcasts + 1
    /\ last_broadcast' = [data |-> data, to |-> clients \ failed]

\* One round of _flush_loop: flush(), and the copy, if any, is handed to the
\* listener _broadcast_combined_event, which returns at once without clients.
FlushLoop ==
    /\ IF paused \/ ~has_new_data
       THEN UNCHANGED <<busVars, clients, busHistVars>>
       ELSE LET buffer_copy == bus_buffer
            IN /\ bus_buffer' = BufferAfterFlush(bus_buffer)
               /\ has_new_data' = FALSE
               /\ since_flush' = CombinedEventData(<<>>, <<>>)
               /\ strum_emitted_paused' =
                      [buffered |-> FALSE,
                       handed |-> strum_emitted_paused.buffered]
               /\ last_coalesced' = since_flush
               /\ IF buffer_copy.tablet # <<>> \/ buffer_copy.strum # <<>>
                  THEN /\ handed' = handed + 1
                       /\ last_handed' = buffer_copy
                       /\ IF clients = {}
                          THEN UNCHANGED <<clients, broadcasts, last_broadcast>>
                          ELSE \E failed \in SUBSET clients :
                                   BroadcastToAllClients(buffer_copy, failed)
                  ELSE UNCHANGED <<handed, last_handed, clients, broadcasts,
                                   last_broadcast>>
               /\ UNCHANGED <<paused, emits>>
    /\ UNCHANGED client_phase
    /\ UNCHANGED <<detVars, envVars, histVars, midiVars, cfgVars, orchVars>>

\* _handle_client: if len(self.clients) == 1: self.event_bus.resume()
ResumeNever(count) == FALSE
ResumeOnConnect(count) == count = 1

\* _handle_client: the client is added; the bus is resumed if it is the only one
ClientConnect(c) ==
    /\ client_phase[c] = "new"
    /\ clients' = clients \cup {c}
    /\ paused' = IF ResumeOnConnect(Cardinality(clients \cup {c}))
                 THEN FALSE ELSE paused
    /\ client_phase' = [client_phase EXCEPT ![c] = "initial"]
    /\ UNCHANGED <<bus_buffer, has_new_data, busHistVars>>
    /\ UNCHANGED <<detVars, envVars, histVars, midiVars, cfgVars, orchVars>>

\* _handle_client: the initial config and status are sent, outside the try: if
\* a send raises (or _get_config_data does), the coroutine ends and the client
\* stays in the set.
ClientInitialSend(c) ==
    /\ client_phase[c] = "initial"
    /\ \E sent \in (IF to_dict_shadowed THEN {FALSE} ELSE BOOLEAN) :
           client_phase' = [client_phase EXCEPT ![c] =
                               IF sent THEN "open" ELSE "aborted"]
    /\ UNCHANGED <<busVars, clients, busHistVars>>
    /\ UNCHANGED <<detVars, envVars, histVars, midiVars, cfgVars, orchVars>>

\* _handle_client, finally: the client is discarded; the bus is paused when no
\* client is left
ClientDisconnect(c) ==
    /\ client_phase[c] = "open"
    /\ clients' = clients \ {c}
    /\ paused' = IF clients \ {c} = {} THEN TRUE ELSE paused
    /\ client_phase' = [client_phase EXCEPT ![c] = "closed"]
    /\ UNCHANGED <<bus_buffer, has_new_data, busHistVars>>
    /\ UNCHANGED <<detVars, envVars, histVars, midiVars, cfgVars, orchVars>>

EmitTablet == \E data \in TabletPayloads : EmitTabletEvent(data)
EmitStrum == \E data \in StrumPayloads : EmitStrumEvent(data)
ClientArrives == \E c \in ClientIds : ClientConnect(c)
ClientGreeted == \E c \in ClientIds : ClientInitialSend(c)
ClientLeaves == \E c \in ClientIds : ClientDisconnect(c)

NextBus ==
    \/ EmitTablet
    \/ EmitStrum
    \/ FlushLoop
    \/ ClientArrives
    \/ ClientGreeted
    \/ ClientLeaves

SpecBus == Init /\ [][NextBus]_vars

\* ===================================================== handle_packet

\* TabletEventData and StrumEventData as handle_packet builds them: the frame's
\* position and pressure, and for a strum payload the detector's event
TabletEventData(x, pressure) == [x |-> x, pressure |-> pressure]
StrumEventData(event, x, pressure) ==
    [type |-> event.type, event |-> event, x |-> x, pressure |-> pressure]

\* handle_packet up to emit_tablet_event: the frame's values are extracted and
\* its tablet data is stored in the buffer's tablet slot
HandlePacketTablet(x, pressure) ==
    /\ packets = handled
    /\ packets < MaxPackets
    /\ now < MaxCalls
    /\ packets' = packets + 1
    /\ packet' = [x |-> x, pressure |-> pressure]
    /\ bus_buffer' = BufferWithTablet(bus_buffer, TabletEventData(x, pressure))
    /\ has_new_data' = TRUE
    /\ emits' = emits + 1
    /\ since_flush' = [since_flush EXCEPT
                          !.tablet = Append(@, TabletEventData(x, pressure))]
    /\ deposited' = [deposited EXCEPT !.tablet =
                        IF bus_buffer'.tablet = <<TabletEventData(x, pressure)>>
                        THEN packets + 1 ELSE @]
    /\ UNCHANGED <<paused, clientVars, strum_emitted_paused, last_coalesced, handed, last_handed,
                   broadcasts, last_broadcast, handled>>
    /\ UNCHANGED <<detVars, envVars, histVars, midiVars, cfgVars, bendVars,
                   confVars, midiInVars, msgVars, actVars, noteVars, schedVars>>

\* handle_packet: event = self.strummer.strum(x, pressure)
HandlePacketStrum ==
    /\ packets = handled + 1
    /\ now = handled
    /\ strum(packet.x, packet.pressure)

\* handle_packet after strum(): if it returned an event, the strum payload is
\* stored in the buffer's strum slot; if it raised, the except clause prints
\* the error; then handle_packet returns
HandlePacketStrumEvent ==
    /\ packets = handled + 1
    /\ now = packets
    /\ handled' = packets
    /\ IF ret.type \in {"strum", "release"}
       THEN LET strum_data == StrumEventData(ret, packet.x, packet.pressure)
            IN /\ bus_buffer' = BufferWithStrum(bus_buffer, strum_data)
               /\ has_new_data' = TRUE
               /\ emits' = emits + 1
               /\ since_flush' = [since_flush EXCEPT
                                     !.strum = Append(@, strum_data)]
               /\ strum_emitted_paused' =
                      [strum_emitted_paused EXCEPT !.buffered = paused]
               /\ deposited' = [deposited EXCEPT !.strum =
                                   IF bus_buffer'.strum = <<strum_data>>
                                   THEN packets ELSE @]
       ELSE UNCHANGED <<bus_buffer, has_new_data, emits, since_flush,
                        strum_emitted_paused, deposited>>
    /\ UNCHANGED <<paused, clientVars, last_coalesced, handed, last_handed,
                   broadcasts, last_broadcast, packets, packet>>
    /\ UNCHANGED <<detVars, envVars, histVars, midiVars, cfgVars, bendVars,
                   confVars, midiInVars, msgVars, actVars, noteVars, schedVars>>

\* The HID reader calls handle_packet for one frame after the other, on its
\* own thread; the flush loop and the clients run on the event loop.
PacketArrives ==
    \E x \in PacketXs, pressure \in PacketPressures :
        HandlePacketTablet(x, pressure)

NextPacket ==
    \/ PacketArrives
    \/ HandlePacketStrum
    \/ HandlePacketStrumEvent
    \/ FlushLoop
    \/ ClientArrives

SpecPacket == Init /\ [][NextPacket]_vars

\* ===================================================== configuration

\* Note.sharp_notations and Note.index_of_notation
SharpNotations ==
    <<"C", "C#", "D", "D#", "E", "F", "F#", "G", "G#", "A", "A#", "B">>
IndexOfNotation(notation) ==
    CHOOSE i \in 0..(Len(SharpNotations) - 1) : SharpNotations[i + 1] = notation

SecondaryNote(notation, octave) ==
    [notation |-> notation, octave |-> octave, secondary |-> TRUE]

\* len(notation) and notation[0]
NotationLen(notation) ==
    IF notation \in {"C#", "D#", "F#", "G#", "A#"} THEN 2 ELSE 1
FirstChar(notation) ==
    CASE notation = "C#" -> "C"
      [] notation = "D#" -> "D"
      [] notation = "F#" -> "F"
      [] notation = "G#" -> "G"
      [] notation = "A#" -> "A"
      [] OTHER -> notation

\* Note.parse_notation, for a note string with a digit as its last character:
\* the notation is the first two characters of a string of three, else the
\* first one
ParseNotation(note_str) ==
    LET octave_char == note_str[2]
        length == NotationLen(note_str[1]) + 1
    IN IF length = 3
       THEN NoteObject(note_str[1], octave_char)
       ELSE NoteObject(FirstChar(note_str[1]), octave_char)

\* Note.chord_intervals; an unknown chord type is a major triad
ChordIntervals(chord_type) ==
    CASE chord_type = "maj" -> <<0, 4, 7>>
      [] chord_type = "m" -> <<0, 3, 7>>
      [] chord_type = "5" -> <<0, 7>>
      [] OTHER -> <<0, 4, 7>>

\* Note.parse_chord at the default octave 4
ParseChord(chord_notation) ==
    LET root == chord_notation[1]
        chord_type == IF chord_notation[2] = "" THEN "maj"
                      ELSE chord_notation[2]
        intervals == ChordIntervals(chord_type)
        root_note == ParseNotation(NoteStr(root, 4))
        root_index == IndexOfNotation(root_note.notation)
    IN [k \in 1..Len(intervals) |->
           NoteObject(
               SharpNotations[((root_index + intervals[k])
                                  % SemitonesPerOctave) + 1],
               4 + ((root_index + intervals[k]) \div SemitonesPerOctave))]

\* Note.fill_note_spread
FillNoteSpreadLowerOnly(ns, lower_spread, upper_spread) ==
    IF ns = <<>> THEN <<>>
    ELSE [c \in 1..lower_spread |-> SecondaryNote(ns[1].notation, 0)] \o ns
FillNoteSpread(ns, lower_spread, upper_spread) ==
    IF ns = <<>>
    THEN <<>>
    ELSE LET n == Len(ns)
             upper == [k \in 1..upper_spread |->
                          LET c == k - 1
                              note_index == c % n
                              octave_increase == c \div n
                          IN SecondaryNote(
                                 ns[note_index + 1].notation,
                                 ns[note_index + 1].octave
                                     + octave_increase + 1)]
             lower == [k \in 1..lower_spread |->
                          LET c == k - 1
                              note_index == c % n
                              octave_decrease == c \div n
                              reverse_index == n - 1 - note_index
                          IN SecondaryNote(
                                 ns[reverse_index + 1].notation,
                                 ns[reverse_index + 1].octave
                                     - octave_decrease - 1)]
         IN lower \o ns \o upper

\* The strumming configuration as a record
StrummingConfig(notes_cfg, chord_cfg, lower, upper) ==
    [initial_notes |-> notes_cfg, chord |-> chord_cfg,
     lower_note_spread |-> lower, upper_note_spread |-> upper]
CurrentConfig ==
    StrummingConfig(initial_notes, chord, lower_note_spread,
                    upper_note_spread)

\* _setup_notes: the base notes come from the chord if one is configured,
\* else from the initial notes
BaseNotes(cfg) ==
    IF cfg.chord # NoChord
    THEN ParseChord(cfg.chord[1])
    ELSE [i \in 1..Len(cfg.initial_notes) |->
             ParseNotation(cfg.initial_notes[i])]

\* _setup_notes: what strummer.notes is set to
SetupNotes(cfg) ==
    FillNoteSpread(BaseNotes(cfg), cfg.lower_note_spread,
                   cfg.upper_note_spread)

\* _get_config_data in a config message: the strummer's notes and the config
ConfigMessage(ns, cfg) ==
    [type |-> "config",
     notes |-> [i \in 1..Len(ns) |->
                   [notation |-> ns[i].notation, octave |-> ns[i].octave]],
     config |-> cfg]

\* broadcast_config, _broadcast: without clients nothing is done, else a
\* _broadcast_to_all_clients task is created for the message
Broadcast(queue, message) ==
    IF clients = {} THEN queue ELSE Append(queue, message)
BroadcastConfig(ns, cfg) ==
    config_tasks' = Broadcast(config_tasks, ConfigMessage(ns, cfg))

\* _set_config_value for a path under strummer.strumming
SetConfigValue(cfg, path, value) ==
    CASE path = "upperNoteSpread" -> [cfg EXCEPT !.upper_note_spread = value]
      [] path = "lowerNoteSpread" -> [cfg EXCEPT !.lower_note_spread = value]
      [] path = "initialNotes" -> [cfg EXCEPT !.initial_notes = value]
      [] path = "chord" -> [cfg EXCEPT !.chord = value]

\* _handle_client when the message handler raises: the finally block discards
\* the client and pauses the bus if no client is left, and the session ends.
CloseSession(c) ==
    /\ clients' = clients \ {c}
    /\ paused' = IF clients \ {c} = {} THEN TRUE ELSE paused
    /\ client_phase' = [client_phase EXCEPT ![c] = "closed"]

\* broadcast_config at the end of the update-config handler: _get_config_data
\* calls config.to_dict(), and what that raises ends the session.
ReplyWithConfig(c, ns, cfg) ==
    IF to_dict_shadowed
    THEN /\ CloseSession(c)
         /\ UNCHANGED config_tasks
    ELSE /\ BroadcastConfig(ns, cfg)
         /\ UNCHANGED <<clients, client_phase, paused>>

\* _handle_client_message for update-config with a path, from a client whose
\* message loop runs: _handle_config_update sets the value, calls
\* strummer.configure (with the configuration's threshold, which is the
\* detector's) and _setup_notes; then broadcast_config.
UpdateConfig(c, path, value) ==
    /\ client_phase[c] = "open"
    /\ updates < MaxUpdates
    /\ LET cfg == SetConfigValue(CurrentConfig, path, value)
       IN /\ initial_notes' = cfg.initial_notes
          /\ chord' = cfg.chord
          /\ lower_note_spread' = cfg.lower_note_spread
          /\ upper_note_spread' = cfg.upper_note_spread
          /\ notes' = SetupNotes(cfg)
          /\ ReplyWithConfig(c, SetupNotes(cfg), cfg)
    /\ updates' = updates + 1
    /\ last_update' = <<[path |-> path, value |-> value]>>
    /\ UNCHANGED <<config_inbox, to_dict_shadowed>>
    /\ UNCHANGED <<last_x, last_strummed_index, last_pressure, last_timestamp,
                   pressure_velocity, pressure_threshold, last_strum_velocity,
                   pressure_buffer, pending_tap_index>>
    /\ UNCHANGED <<bus_buffer, has_new_data, busHistVars>>
    /\ UNCHANGED <<envVars, histVars, midiVars, cfgVars, bendVars, midiInVars, msgVars, pktVars, noteVars, schedVars, actVars>>

\* The attributes of the configuration objects: dataclass fields that hold an
\* object, the other fields, read-only properties and methods.
ConfigChildren(object) ==
    CASE object = "config" -> {"strummer", "midi", "server"}
      [] object = "strummer" -> {"strumming", "transpose", "note_repeater"}
      [] OTHER -> {}
ConfigFields(object) ==
    CASE object = "strumming" ->
             {"initial_notes", "chord", "lower_note_spread",
              "upper_note_spread", "pressure_threshold"}
      [] OTHER -> {}
ConfigProperties(object) ==
    CASE object \in {"config", "strummer"} ->
             {"notes", "chord", "lower_spread", "upper_spread",
              "pressure_threshold"}
      [] OTHER -> {}
ConfigMethods(object) ==
    IF object \in {"config", "strummer", "strumming", "transpose",
                   "note_repeater", "midi", "server"}
    THEN {"to_dict"}
    ELSE {}
HasAttr(object, name) ==
    name \in ConfigChildren(object) \cup ConfigFields(object)
                \cup ConfigProperties(object) \cup ConfigMethods(object)

\* _camel_to_snake
CamelToSnake(name) ==
    CASE name = "toDict" -> "to_dict"
      [] name = "upperNoteSpread" -> "upper_note_spread"
      [] name = "lowerNoteSpread" -> "lower_note_spread"
      [] name = "initialNotes" -> "initial_notes"
      [] OTHER -> name

\* _set_config_value, the walk to the parent object: the object reached, or
\* "value" for what is no configuration object, or "invalid" when a part is
\* no attribute (ValueError)
RECURSIVE NavigateFrom(_, _)
NavigateFrom(object, parts) ==
    IF parts = <<>> \/ object = "invalid"
    THEN object
    ELSE LET snake_part == CamelToSnake(Head(parts))
         IN NavigateFrom(
                IF snake_part \in ConfigChildren(object) THEN snake_part
                ELSE IF HasAttr(object, snake_part) THEN "value"
                ELSE "invalid",
                Tail(parts))

\* _set_config_value for a path that names no field: setattr on a method's
\* name succeeds, setattr on a property without setter raises AttributeError,
\* and a name that is no attribute raises ValueError.
SetBadConfigValue(path) ==
    LET parent == NavigateFrom("config", SubSeq(path, 1, Len(path) - 1))
        snake_last == CamelToSnake(path[Len(path)])
    IN IF parent = "invalid" THEN Raised("ValueError")
       ELSE IF snake_last \in ConfigMethods(parent)
            THEN [type |-> "set", error |-> ""]
       ELSE IF snake_last \in ConfigProperties(parent)
            THEN Raised("AttributeError")
       ELSE Raised("ValueError")

\* _handle_client_message for update-config with a path that names no field:
\* _handle_config_update catches what _set_config_value raises and does
\* nothing else; then broadcast_config.
UpdateBadPath(c, path) ==
    /\ client_phase[c] = "open"
    /\ updates < MaxUpdates
    /\ LET outcome == SetBadConfigValue(path)
           shadowed == to_dict_shadowed \/ outcome.type = "set"
       IN /\ to_dict_shadowed' = shadowed
          /\ IF shadowed
             THEN /\ CloseSession(c)
                  /\ UNCHANGED config_tasks
             ELSE /\ BroadcastConfig(notes, CurrentConfig)
                  /\ UNCHANGED <<clients, client_phase, paused>>
    /\ updates' = updates + 1
    /\ last_update' = <<[path |-> "bad", value |-> path]>>
    /\ UNCHANGED <<initial_notes, chord, lower_note_spread, upper_note_spread,
                   config_inbox>>
    /\ UNCHANGED <<bus_buffer, has_new_data, busHistVars>>
    /\ UNCHANGED <<detVars, envVars, histVars, midiVars, cfgVars, bendVars,
                   midiInVars, msgVars, pktVars, noteVars, schedVars, actVars>>

\* A _broadcast_to_all_clients task for a config message runs: the message
\* is sent to every client of the set, and those whose send fails or times
\* out are discarded.
ConfigBroadcastTask ==
    /\ config_tasks # <<>>
    /\ \E failed \in SUBSET clients :
           /\ clients' = clients \ failed
           /\ config_inbox' =
                  [c \in ClientIds |->
                      IF c \in clients \ failed
                      THEN Append(config_inbox[c], Head(config_tasks))
                      ELSE config_inbox[c]]
    /\ config_tasks' = Tail(config_tasks)
    /\ UNCHANGED <<initial_notes, chord, lower_note_spread, upper_note_spread,
                   updates, last_update, to_dict_shadowed>>
    /\ UNCHANGED <<busVars, client_phase, busHistVars>>
    /\ UNCHANGED <<detVars, envVars, histVars, midiVars, cfgVars, bendVars,
                   midiInVars, msgVars, pktVars, noteVars, schedVars, actVars>>

UpdateUpperNoteSpread ==
    \E c \in ClientIds, value \in UpperSpreads :
        UpdateConfig(c, "upperNoteSpread", value)
UpdateLowerNoteSpread ==
    \E c \in ClientIds, value \in LowerSpreads :
        UpdateConfig(c, "lowerNoteSpread", value)
UpdateInitialNotes ==
    \E c \in ClientIds, value \in NoteStringLists :
        UpdateConfig(c, "initialNotes", value)
UpdateChord ==
    \E c \in ClientIds, value \in ChordValues :
        UpdateConfig(c, "chord", value)

NextConfig ==
    \/ ClientArrives
    \/ ClientGreeted
    \/ ClientLeaves
    \/ UpdateUpperNoteSpread
    \/ UpdateLowerNoteSpread
    \/ UpdateInitialNotes
    \/ UpdateChord
    \/ ConfigBroadcastTask

SpecConfig == Init /\ [][NextConfig]_vars

\* json.loads: what it returns, or JSONDecodeError
JsonLoads(message) ==
    IF message.json = "invalid" THEN Raised("JSONDecodeError")
    ELSE [type |-> "value", error |-> ""]

\* _handle_client_message for a message that is no protocol message:
\* JSONDecodeError is caught and logged; data.get raises AttributeError on a
\* value that is no object, which nothing catches, and the session ends; an
\* object of an unknown type is logged.
Propagates(outcome) == outcome.type = "raise"
HandleMalformed(c, message) ==
    /\ client_phase[c] = "open"
    /\ client_messages < MaxMessages
    /\ LET loaded == JsonLoads(message)
           outcome == IF loaded.type = "raise" THEN None
                      ELSE IF message.json # "object"
                           THEN Raised("AttributeError")
                      ELSE None
       IN IF Propagates(outcome)
          THEN CloseSession(c)
          ELSE UNCHANGED <<clients, client_phase, paused>>
    /\ client_messages' = client_messages + 1
    /\ last_client_message' = <<message>>
    /\ UNCHANGED <<bus_buffer, has_new_data, busHistVars>>
    /\ UNCHANGED <<detVars, envVars, histVars, midiVars, cfgVars, bendVars,
                   confVars, midiInVars, actVars, pktVars, noteVars, schedVars>>

MalformedMessage ==
    \E c \in ClientIds, message \in MalformedMessages :
        HandleMalformed(c, message)

NextMessages ==
    \/ ClientArrives
    \/ ClientGreeted
    \/ ClientLeaves
    \/ MalformedMessage

SpecMessages == Init /\ [][NextMessages]_vars

UpdateWithBadPath ==
    \E c \in ClientIds, path \in BadPaths : UpdateBadPath(c, path)

NextBadPath ==
    \/ ClientArrives
    \/ ClientGreeted
    \/ ClientLeaves
    \/ UpdateUpperNoteSpread
    \/ UpdateWithBadPath
    \/ ConfigBroadcastTask

SpecBadPath == Init /\ [][NextBadPath]_vars

\* ========================================================= MIDI input

\* _handle_midi_message: the note string of a MIDI note number
FormatNote(note_number) ==
    NoteStr(SharpNotations[(note_number % SemitonesPerOctave) + 1],
            (note_number \div SemitonesPerOctave) - 1)

\* _sort_notes: note_to_midi, the key, and sorted()
NoteToMidi(note_str) ==
    (note_str[2] + 1) * SemitonesPerOctave + IndexOfNotation(note_str[1])
RECURSIVE SortNotes(_)
SortNotes(note_strs) ==
    IF note_strs = <<>>
    THEN <<>>
    ELSE LET first == CHOOSE i \in 1..Len(note_strs) :
                          \A j \in 1..Len(note_strs) :
                              \/ NoteToMidi(note_strs[i]) < NoteToMidi(note_strs[j])
                              \/ /\ NoteToMidi(note_strs[i]) = NoteToMidi(note_strs[j])
                                 /\ i <= j
             rest == [k \in 1..(Len(note_strs) - 1) |->
                         IF k < first THEN note_strs[k] ELSE note_strs[k + 1]]
         IN <<note_strs[first]>> \o SortNotes(rest)

Remove(note_strs, note_str) ==
    LET at == CHOOSE i \in 1..Len(note_strs) : note_strs[i] = note_str
    IN [k \in 1..(Len(note_strs) - 1) |->
           IF k < at THEN note_strs[k] ELSE note_strs[k + 1]]

\* The midi-input message of _broadcast_midi_input
MidiInputMessage(event) ==
    [type |-> "midi-input", notes |-> event.notes, added |-> event.added,
     removed |-> event.removed]

\* _update_notes_from_midi_input, after the tasks in queue: an empty list is
\* ignored; else the list becomes the configuration's initial notes,
\* _setup_notes sets the strummer's notes and the configuration is broadcast
\* (broadcast_config raises, with nothing sent, if to_dict cannot be called).
UpdateNotesFromMidiInput(queue, note_strings) ==
    IF note_strings = <<>>
    THEN /\ config_tasks' = queue
         /\ UNCHANGED <<notes, initial_notes>>
    ELSE LET cfg == [CurrentConfig EXCEPT !.initial_notes = note_strings]
         IN /\ initial_notes' = note_strings
            /\ notes' = SetupNotes(cfg)
            /\ config_tasks' =
                   IF to_dict_shadowed
                   THEN queue
                   ELSE Broadcast(queue, ConfigMessage(SetupNotes(cfg), cfg))

\* A note-on for a key that is not held: _on_note_down adds the note string
\* and sorts, and on_midi_note gets the 'added' event: it broadcasts the
\* event, cancels the pending debounce timer and updates the notes at once.
NoteDown(note_number) ==
    /\ midi_events < MaxMidiEvents
    /\ \A i \in 1..Len(held) : held[i] # FormatNote(note_number)
    /\ LET note_str == FormatNote(note_number)
           notes_copy == SortNotes(Append(held, note_str))
           event == [notes |-> notes_copy, added |-> <<note_str>>,
                     removed |-> <<>>]
       IN /\ held' = notes_copy
          /\ debounce_timer' = <<>>
          /\ UpdateNotesFromMidiInput(
                 Broadcast(config_tasks, MidiInputMessage(event)), event.notes)
          /\ midi_step' = [kind |-> "added", notes |-> event.notes]
    /\ midi_events' = midi_events + 1
    /\ UNCHANGED <<debounce_read, wall, port_events>>
    /\ UNCHANGED <<chord, lower_note_spread, upper_note_spread, config_inbox,
                   updates, last_update, to_dict_shadowed>>
    /\ UNCHANGED <<last_x, last_strummed_index, last_pressure, last_timestamp,
                   pressure_velocity, pressure_threshold, last_strum_velocity,
                   pressure_buffer, pending_tap_index>>
    /\ UNCHANGED <<envVars, histVars, midiVars, cfgVars, serverVars, bendVars, msgVars, pktVars, noteVars, schedVars, actVars>>

\* A note-off for a held key: _on_note_up removes the note string, and
\* on_midi_note gets the 'removed' event: it broadcasts the event, cancels the
\* pending debounce timer and starts a new one of 0.1 s.
NoteUp(note_number) ==
    /\ midi_events < MaxMidiEvents
    /\ \E i \in 1..Len(held) : held[i] = FormatNote(note_number)
    /\ LET note_str == FormatNote(note_number)
           notes_copy == SortNotes(Remove(held, note_str))
           event == [notes |-> notes_copy, added |-> <<>>,
                     removed |-> <<note_str>>]
       IN /\ held' = notes_copy
          /\ config_tasks' = Broadcast(config_tasks, MidiInputMessage(event))
          /\ midi_step' = [kind |-> "removed", notes |-> event.notes]
    /\ debounce_timer' = <<wall + DebounceTicks>>
    /\ midi_events' = midi_events + 1
    /\ UNCHANGED <<debounce_read, wall, port_events>>
    /\ UNCHANGED <<initial_notes, chord, lower_note_spread, upper_note_spread,
                   config_inbox, updates, last_update, to_dict_shadowed>>
    /\ UNCHANGED <<detVars, envVars, histVars, midiVars, cfgVars, serverVars,
                   bendVars, msgVars, pktVars, noteVars, schedVars, actVars>>

\* The debounce timer runs out, not before it is due: debounced_update clears
\* the timer and reads the held notes; if none is held it is done.
DebounceExpire ==
    /\ debounce_timer # <<>>
    /\ wall >= debounce_timer[1]
    /\ debounce_read = <<>>
    /\ debounce_timer' = <<>>
    /\ debounce_read' = IF Len(held) > 0 THEN <<held>> ELSE <<>>
    /\ midi_step' = [kind |-> "expired", notes |-> held]
    /\ UNCHANGED <<held, wall, midi_events, port_events>>
    /\ UNCHANGED confVars
    /\ UNCHANGED <<detVars, envVars, histVars, midiVars, cfgVars, serverVars,
                   bendVars, msgVars, pktVars, noteVars, schedVars, actVars>>

\* debounced_update goes on: the notes it read are applied
DebounceApply ==
    /\ debounce_read # <<>>
    /\ UpdateNotesFromMidiInput(config_tasks, debounce_read[1])
    /\ debounce_read' = <<>>
    /\ midi_step' = [kind |-> "applied", notes |-> debounce_read[1]]
    /\ UNCHANGED <<held, debounce_timer, wall, midi_events, port_events>>
    /\ UNCHANGED <<chord, lower_note_spread, upper_note_spread, config_inbox,
                   updates, last_update, to_dict_shadowed>>
    /\ UNCHANGED <<last_x, last_strummed_index, last_pressure, last_timestamp,
                   pressure_velocity, pressure_threshold, last_strum_velocity,
                   pressure_buffer, pending_tap_index>>
    /\ UNCHANGED <<envVars, histVars, midiVars, cfgVars, serverVars, bendVars, msgVars, pktVars, noteVars, schedVars, actVars>>

\* 50 ms pass
TimePasses ==
    /\ wall < MaxWall
    /\ wall' = wall + 1
    /\ UNCHANGED <<held, debounce_timer, debounce_read, midi_events, midi_step,
                   port_events>>
    /\ UNCHANGED confVars
    /\ UNCHANGED <<detVars, envVars, histVars, midiVars, cfgVars, serverVars,
                   bendVars, msgVars, pktVars, noteVars, schedVars, actVars>>

KeyPressed == \E note_number \in MidiNoteNumbers : NoteDown(note_number)
KeyReleased == \E note_number \in MidiNoteNumbers : NoteUp(note_number)

NextMidiIn ==
    \/ KeyPressed
    \/ KeyReleased
    \/ DebounceExpire
    \/ DebounceApply
    \/ TimePasses

\* The server started with or without a chord configured; the chord's notes
\* are the initial notes.
InitMidiIn ==
    /\ InitDetector
    /\ InitEnv
    /\ InitBackend("rtmidi", NoChannel)
    /\ InitServer
    /\ InitPitchBend(0)
    /\ \E configured_chord \in ConfiguredChords : InitConfig(configured_chord)
    /\ InitMidiInput
    /\ InitNoTranspose
    /\ InitNoScheduler

SpecMidiIn == InitMidiIn /\ [][NextMidiIn]_vars

\* A note-on for a key that is held.  The server uses JackMidiInput with
\* the JACK backend and RtMidiInput otherwise.  JackMidiInput._on_note_down
\* returns inside the lock; RtMidiInput._on_note_down has no else branch and
\* goes on to build the event from notes_copy, which was not assigned:
\* UnboundLocalError, in the port's callback.
NoteDownHeld(note_number) ==
    /\ midi_events < MaxMidiEvents
    /\ \E i \in 1..Len(held) : held[i] = FormatNote(note_number)
    /\ midi_step' = IF backend = "jack"
                    THEN [kind |-> "repeated", notes |-> held]
                    ELSE [kind |-> "raise", notes |-> held]
    /\ midi_events' = midi_events + 1
    /\ UNCHANGED <<held, debounce_timer, debounce_read, wall, port_events>>
    /\ UNCHANGED confVars
    /\ UNCHANGED <<detVars, envVars, histVars, midiVars, cfgVars, serverVars,
                   bendVars, msgVars, pktVars, noteVars, schedVars, actVars>>

KeyRepeated == \E note_number \in MidiNoteNumbers : NoteDownHeld(note_number)

\* Keys pressed, pressed again while held, and released, with either bridge.
NextMidiRepeat ==
    \/ KeyPressed
    \/ KeyRepeated
    \/ KeyReleased
    \/ DebounceExpire
    \/ DebounceApply
    \/ TimePasses

SpecMidiRepeat == InitMidi /\ [][NextMidiRepeat]_vars

\* connect_all: every input port has a callback thread of its own.  A
\* note-on for a key that is not held, on another port's thread:
\* _on_note_down, inside the lock, adds the note string, sorts and copies.
NoteDownLocked(note_number) ==
    /\ midi_events < MaxMidiEvents
    /\ \A i \in 1..Len(held) : held[i] # FormatNote(note_number)
    /\ LET note_str == FormatNote(note_number)
           notes_copy == SortNotes(Append(held, note_str))
       IN /\ held' = notes_copy
          /\ port_events' = port_events \cup
                 {[notes |-> notes_copy, added |-> <<note_str>>,
                   removed |-> <<>>]}
    /\ midi_events' = midi_events + 1
    /\ UNCHANGED <<debounce_timer, debounce_read, wall, midi_step>>
    /\ UNCHANGED confVars
    /\ UNCHANGED <<detVars, envVars, histVars, midiVars, cfgVars, serverVars,
                   bendVars, msgVars, pktVars, noteVars, schedVars, actVars>>

\* _on_note_down on that thread goes on, outside the lock: _emit_note_event
\* calls on_midi_note with the copy.
NoteDownEmit(event) ==
    /\ event \in port_events
    /\ port_events' = port_events \ {event}
    /\ debounce_timer' = <<>>
    /\ UpdateNotesFromMidiInput(
           Broadcast(config_tasks, MidiInputMessage(event)), event.notes)
    /\ midi_step' = [kind |-> "added", notes |-> event.notes]
    /\ UNCHANGED <<held, debounce_read, wall, midi_events>>
    /\ UNCHANGED <<chord, lower_note_spread, upper_note_spread, config_inbox,
                   updates, last_update, to_dict_shadowed>>
    /\ UNCHANGED <<last_x, last_strummed_index, last_pressure, last_timestamp,
                   pressure_velocity, pressure_threshold, last_strum_velocity,
                   pressure_buffer, pending_tap_index>>
    /\ UNCHANGED <<envVars, histVars, midiVars, cfgVars, serverVars, bendVars,
                   msgVars, pktVars, noteVars, schedVars, actVars>>

PortKeyPressed == \E note_number \in MidiNoteNumbers : NoteDownLocked(note_number)
PortEmits == \E event \in port_events : NoteDownEmit(event)

\* Keys played on several input ports; no chord is configured.
NextMidiPorts ==
    \/ KeyPressed
    \/ KeyReleased
    \/ PortKeyPressed
    \/ PortEmits
    \/ DebounceExpire
    \/ DebounceApply
    \/ TimePasses

SpecMidiPorts == Init /\ [][NextMidiPorts]_vars

\* ===================================================== action dispatcher

\* CHORD_PROGRESSION_PRESETS
ChordProgressionPresets(name) ==
    CASE name = "c-major-pop" ->
             <<ChordSymbol("C", ""), ChordSymbol("G", ""),
               ChordSymbol("A", "m"), ChordSymbol("F", "")>>
      [] OTHER -> <<>>
KnownProgressions == {"c-major-pop"}

\* ChordProgressionState.load_progression, set_index, increment_index,
\* get_current_chord (<<>> for None)
LoadProgression(name) ==
    [progression_name |-> <<name>>, chords |-> ChordProgressionPresets(name),
     current_index |-> 0]
SetIndex(state, index) ==
    IF state.chords # <<>>
    THEN [state EXCEPT !.current_index = index % Len(state.chords)]
    ELSE state
IncrementIndex(state, amount) ==
    IF state.chords # <<>>
    THEN [state EXCEPT !.current_index =
                           (state.current_index + amount) % Len(state.chords)]
    ELSE state
GetCurrentChord(state) ==
    IF state.chords # <<>> /\ state.current_index < Len(state.chords)
    THEN <<state.chords[state.current_index + 1]>>
    ELSE <<>>

\* What the handlers of the server's Actions emit: emit('config_changed'),
\* and the strummer's notes setter emits 'notes_changed'.  No listener is
\* registered for either signal, so no broadcast follows.
Emit(signal) ==
    IF signal = "config_changed"
    THEN [signals EXCEPT !.config_changed = @ + 1]
    ELSE [signals EXCEPT !.notes_changed = @ + 1]

\* getattr(self.config, name, 0) in the handlers: the server constructs
\* Actions with a dict, whose keys are not attributes, so the default is
\* what comes back for 'lower_spread' and for 'upper_spread'.
ActionsConfigSpread(name) == 0

\* The strummer's notes are set by an action, through fill_note_spread.
ActionSetsNotes(base) ==
    /\ notes' = FillNoteSpread(base, ActionsConfigSpread("lower_spread"),
                               ActionsConfigSpread("upper_spread"))
    /\ signals' = Emit("notes_changed")

\* toggle_repeater and toggle_transpose
ToggleRepeater ==
    /\ repeater_active' = ~repeater_active
    /\ signals' = Emit("config_changed")
    /\ UNCHANGED <<notes, transpose_active, transpose_semitones,
                   progression_state>>
ToggleTranspose ==
    /\ transpose_active' = ~transpose_active
    /\ signals' = Emit("config_changed")
    /\ UNCHANGED <<notes, repeater_active, transpose_semitones,
                   progression_state>>

\* transpose: without a number nothing is done; the same semitones again
\* turn it off
Transpose(params) ==
    IF params = <<>>
    THEN UNCHANGED <<notes, repeater_active, transpose_active,
                     transpose_semitones, progression_state, signals>>
    ELSE /\ IF transpose_active /\ transpose_semitones = params[1]
            THEN transpose_active' = FALSE /\ transpose_semitones' = 0
            ELSE transpose_active' = TRUE /\ transpose_semitones' = params[1]
         /\ signals' = Emit("config_changed")
         /\ UNCHANGED <<notes, repeater_active, progression_state>>

\* set_strum_notes: an empty list is refused
SetStrumNotes(params) ==
    IF params[1] = <<>>
    THEN UNCHANGED <<notes, repeater_active, transpose_active,
                     transpose_semitones, progression_state, signals>>
    ELSE /\ ActionSetsNotes([i \in 1..Len(params[1]) |->
                                ParseNotation(params[1][i])])
         /\ UNCHANGED <<repeater_active, transpose_active,
                        transpose_semitones, progression_state>>

\* set_strum_chord
SetStrumChord(params) ==
    /\ ActionSetsNotes(ParseChord(params[1]))
    /\ UNCHANGED <<repeater_active, transpose_active, transpose_semitones,
                   progression_state>>

\* set_chord_in_progression and increment_chord_in_progression: the
\* progression is loaded if it is not the current one (an unknown name ends
\* the action), the index is moved and the chord at it is applied.
ApplyProgression(name, moved) ==
    IF name \notin KnownProgressions /\ progression_state.progression_name # <<name>>
    THEN UNCHANGED <<notes, repeater_active, transpose_active,
                     transpose_semitones, progression_state, signals>>
    ELSE /\ progression_state' = moved
         /\ IF GetCurrentChord(moved) = <<>>
            THEN UNCHANGED <<notes, signals>>
            ELSE ActionSetsNotes(ParseChord(GetCurrentChord(moved)[1]))
         /\ UNCHANGED <<repeater_active, transpose_active,
                        transpose_semitones>>
Loaded(name) ==
    IF progression_state.progression_name # <<name>>
    THEN LoadProgression(name)
    ELSE progression_state
SetChordInProgression(params) ==
    ApplyProgression(params[1], SetIndex(Loaded(params[1]), params[2]))
IncrementChordInProgression(params) ==
    ApplyProgression(params[1], IncrementIndex(Loaded(params[1]), 1))

\* Actions.execute, called by handle_packet on a button's rising edge
Execute(action_def) ==
    /\ actions_executed < MaxActions
    /\ CASE action_def.name = "toggle-repeater" -> ToggleRepeater
         [] action_def.name = "toggle-transpose" -> ToggleTranspose
         [] action_def.name = "transpose" -> Transpose(action_def.params)
         [] action_def.name = "set-strum-notes" ->
                SetStrumNotes(action_def.params)
         [] action_def.name = "set-strum-chord" ->
                SetStrumChord(action_def.params)
         [] action_def.name = "set-chord-in-progression" ->
                SetChordInProgression(action_def.params)
         [] action_def.name = "increment-chord-in-progression" ->
                IncrementChordInProgression(action_def.params)
    /\ actions_executed' = actions_executed + 1
    /\ UNCHANGED <<last_x, last_strummed_index, last_pressure, last_timestamp,
                   pressure_velocity, pressure_threshold, last_strum_velocity,
                   pressure_buffer, pending_tap_index>>
    /\ UNCHANGED <<envVars, histVars, midiVars, cfgVars, serverVars, bendVars,
                   confVars, midiInVars, msgVars, pktVars, noteVars, schedVars>>

ButtonPressed == \E action_def \in ActionDefs : Execute(action_def)

NextActions == ButtonPressed

SpecActions == Init /\ [][NextActions]_vars

\* Buttons pressed while clients change the note spreads of the configuration.
NextActionSpread ==
    \/ ClientArrives
    \/ ClientGreeted
    \/ UpdateUpperNoteSpread
    \/ UpdateLowerNoteSpread
    \/ ButtonPressed

SpecActionSpread == Init /\ [][NextActionSpread]_vars

\* ================================================== pitch-bend throttle

\* value_changed = last value is None or abs(bend_value - last value) > 0.01
ValueChanged(bend_value, last_value) ==
    \/ last_value = <<>>
    \/ bend_value - last_value[1] > BendChange
    \/ last_value[1] - bend_value > BendChange

\* time_since_last >= 0.02 or (value_changed and time_since_last >= 0.005)
ShouldSendBend(time_since_last, value_changed) ==
    \/ time_since_last >= ThrottleTicks
    \/ value_changed /\ time_since_last >= FastPathTicks

\* handle_packet, the pitch-bend part, for one frame of scenario S4.  The
\* clock (time.time()) is far from 0 at the first frame: it reads
\* ThrottleTicks at frame 0 and a tick more at every frame.
PitchBendFrame ==
    /\ frames \in S4FrameTicks
    /\ LET current_time == ThrottleTicks + frames
           bend_value == BendStart + frames * bend_step
           time_since_last == current_time - last_pitch_bend_time
           value_changed == ValueChanged(bend_value, last_pitch_bend_value)
       IN IF ShouldSendBend(time_since_last, value_changed)
          THEN /\ pitch_bends_sent' = pitch_bends_sent + 1
               /\ last_pitch_bend_time' = current_time
               /\ last_pitch_bend_value' = <<bend_value>>
          ELSE UNCHANGED <<pitch_bends_sent, last_pitch_bend_time,
                           last_pitch_bend_value>>
    /\ frames' = frames + 1
    /\ UNCHANGED bend_step
    /\ UNCHANGED <<detVars, envVars, histVars, midiVars, cfgVars, serverVars>>
    /\ UNCHANGED <<confVars, midiInVars, msgVars, pktVars, noteVars, schedVars, actVars>>

NextS4 == PitchBendFrame

InitS4 ==
    /\ InitDetector
    /\ InitEnv
    /\ InitBackend("rtmidi", NoChannel)
    /\ InitServer
    /\ \E step \in BendSteps : InitPitchBend(step)
    /\ InitConfig(NoChord)
    /\ InitMidiInput
    /\ InitNoTranspose
    /\ InitNoScheduler

SpecS4 == InitS4 /\ [][NextS4]_vars

\* ================================================= MIDI output backends

\* Note.notation_to_midi: octave * len(sharp_notations) + index of the notation
NotationIndex(notation) ==
    CASE notation = "C" -> 0
      [] notation = "E" -> 4
      [] notation = "G" -> 7
NotationToMidi(note) ==
    note.octave * SemitonesPerOctave + NotationIndex(note.notation)

\* RtMidiBackend._get_channels
RtMidiGetChannels(ch) ==
    IF ch # NoChannel THEN <<ch[1]>>
    ELSE IF channel # NoChannel THEN <<channel[1]>>
    ELSE <<0>>

\* JackMidiBackend._get_channels
JackGetChannels(ch) ==
    IF ch # NoChannel THEN <<ch[1] - 1>>
    ELSE IF channel # NoChannel THEN <<channel[1] - 1>>
    ELSE [i \in 1..NumChannels |-> i - 1]

GetChannels(ch) ==
    IF backend = "rtmidi" THEN RtMidiGetChannels(ch) ELSE JackGetChannels(ch)

\* is_connected: _connected and the port object is not None
IsConnected == connected /\ port

\* A MIDI message: its three bytes; "by" remembers the send_note() call that
\* produced it (for a note-off, the call whose timer sent it; 0 for
\* release_notes), which the bytes do not carry.
NoteOnMessages(midi_note, velocity, channels, by) ==
    [i \in 1..Len(channels) |->
        [bytes |-> <<NoteOnStatus + channels[i], midi_note, velocity>>, by |-> by]]
NoteOffMessages(midi_note, channels, by) ==
    [i \in 1..Len(channels) |->
        [bytes |-> <<NoteOffStatus + channels[i], midi_note, NoteOffVelocity>>,
         by |-> by]]

\* JackMidiBackend._queue_midi_event: put_nowait, the event is dropped on queue.Full
QueueMidiEvent(queue, message) ==
    IF Len(queue) < QueueMaxSize THEN Append(queue, message) ELSE queue

RECURSIVE QueueAll(_, _)
QueueAll(queue, messages) ==
    IF messages = <<>> THEN queue
    ELSE QueueAll(QueueMidiEvent(queue, Head(messages)), Tail(messages))

Range(seq) == {seq[i] : i \in DOMAIN seq}

\* The last message accepted per <<note, channel>>, after `accepted` in order.
RECURSIVE Accept(_, _)
Accept(last, accepted) ==
    IF accepted = <<>> THEN last
    ELSE LET m == Head(accepted)
             slot == <<m.bytes[2], m.bytes[1] % NumChannels>>
         IN Accept([k \in DOMAIN last \cup {slot} |->
                       IF k = slot THEN m ELSE last[k]],
                   Tail(accepted))

\* for ch in channels: send_message(message) / _queue_midi_event(message)
SendAll(messages) ==
    IF backend = "rtmidi"
    THEN /\ wire' = wire \cup Range(messages)
         /\ last_message' = Accept(last_message, messages)
         /\ UNCHANGED midi_queue
    ELSE LET queued == QueueAll(midi_queue, messages)
         IN /\ midi_queue' = queued
            /\ last_message' =
                   Accept(last_message,
                          SubSeq(queued, Len(midi_queue) + 1, Len(queued)))
            /\ UNCHANGED wire

\* dict operations on _active_note_timers
Without(map, key) == [k \in DOMAIN map \ {key} |-> map[k]]
With(map, key, value) ==
    [k \in DOMAIN map \cup {key} |-> IF k = key THEN value ELSE map[k]]

\* with self._timer_lock: if note_key in timers: timers[note_key].cancel(); del ...
\* threading.Timer.cancel() sets the timer's finished event.
CancelExisting(note_key) ==
    IF note_key \in DOMAIN active_note_timers
    THEN /\ timers' = [timers EXCEPT ![active_note_timers[note_key]].finished = TRUE]
         /\ active_note_timers' = Without(active_note_timers, note_key)
    ELSE UNCHANGED <<timers, active_note_timers>>

\* connect(): the port object is created, then the port opened; on an
\* exception the backend stays disconnected.
Connect ==
    /\ pc = "idle"
    /\ ~connected
    /\ \E created \in BOOLEAN, opened \in BOOLEAN :
        /\ port' = (port \/ created)
        /\ connected' = (created /\ opened)
    /\ disconnected' = FALSE
    /\ UNCHANGED <<backend, channel, active_note_timers, timers, midi_queue,
                   wire, last_message, clock, pc, cur, sends, raw_sends, channel_sets, releases>>
    /\ UNCHANGED <<detVars, envVars, histVars, cfgVars, serverVars, orchVars>>

\* send_note(), up to the cancellation of the key's pending timer
SendNoteCancel(note, velocity, duration) ==
    /\ pc = "idle"
    /\ sends < MaxSends
    /\ IsConnected
    /\ LET midi_note == NotationToMidi(note)
           channels == GetChannels(NoChannel)
           note_key == <<midi_note, channels>>
       IN
       /\ CancelExisting(note_key)
       /\ cur' = [midi_note |-> midi_note, velocity |-> velocity,
                  duration |-> duration, channels |-> channels,
                  note_key |-> note_key, by |-> sends + 1]
    /\ pc' = "send_note_on"
    /\ sends' = sends + 1
    /\ UNCHANGED <<backend, connected, port, channel, midi_queue, wire, last_message, clock,
                   releases, raw_sends, channel_sets, disconnected>>
    /\ UNCHANGED <<detVars, envVars, histVars, cfgVars, serverVars, orchVars>>

\* send_raw_note() (rtmidi only), up to the cancellation of the key's pending
\* timer; the rest of it is the same code as send_note's
SendRawNoteCancel(midi_note, velocity, duration, ch) ==
    /\ pc = "idle"
    /\ raw_sends < MaxRawSends
    /\ backend = "rtmidi"
    /\ IsConnected
    /\ LET channels == GetChannels(ch)
           note_key == <<midi_note, channels>>
       IN
       /\ CancelExisting(note_key)
       /\ cur' = [midi_note |-> midi_note, velocity |-> velocity,
                  duration |-> duration, channels |-> channels,
                  note_key |-> note_key, by |-> MaxSends + raw_sends + 1]
    /\ pc' = "send_note_on"
    /\ raw_sends' = raw_sends + 1
    /\ UNCHANGED <<backend, connected, port, channel, midi_queue, wire, last_message, clock,
                   sends, channel_sets, releases, disconnected>>
    /\ UNCHANGED <<detVars, envVars, histVars, cfgVars, serverVars, orchVars>>

\* send_note(): the note-on on every channel of the key
SendNoteOn ==
    /\ pc = "send_note_on"
    /\ SendAll(NoteOnMessages(cur.midi_note, cur.velocity, cur.channels, cur.by))
    /\ pc' = "send_note_schedule"
    /\ UNCHANGED <<backend, connected, port, channel, active_note_timers, timers,
                   clock, cur, sends, raw_sends, channel_sets, releases, disconnected>>
    /\ UNCHANGED <<detVars, envVars, histVars, cfgVars, serverVars, orchVars>>

\* send_note(): timer = threading.Timer(duration, send_off), registered under the
\* lock, and timer.start(): the timer thread waits for the interval
SendNoteSchedule ==
    /\ pc = "send_note_schedule"
    /\ timers' = Append(timers, [note_key |-> cur.note_key, by |-> cur.by,
                                 channels |-> cur.channels,
                                 interval |-> cur.duration,
                                 deadline |-> clock + cur.duration,
                                 phase |-> "wait", finished |-> FALSE])
    /\ active_note_timers' = With(active_note_timers, cur.note_key, Len(timers) + 1)
    /\ pc' = "idle"
    /\ UNCHANGED <<backend, connected, port, channel, midi_queue, wire,
                   last_message, clock, cur, sends, raw_sends, channel_sets, releases, disconnected>>
    /\ UNCHANGED <<detVars, envVars, histVars, cfgVars, serverVars, orchVars>>

\* threading.Timer.run: finished.wait(interval) returns on cancel() or when the
\* interval is over; the function is called if finished is not set by then.
TimerWake(t) ==
    /\ timers[t].phase = "wait"
    /\ timers[t].finished \/ clock >= timers[t].deadline
    /\ timers' = [timers EXCEPT ![t].phase =
                     IF timers[t].finished THEN "done" ELSE "send_off"]
    /\ UNCHANGED <<backend, connected, port, channel, active_note_timers,
                   midi_queue, wire, last_message, clock, pc, cur, sends, raw_sends, channel_sets, releases,
                   disconnected>>
    /\ UNCHANGED <<detVars, envVars, histVars, cfgVars, serverVars, orchVars>>

\* send_off(): if self.is_connected [and self._midi_out]: the test made before
\* the note-offs are sent
TimerCheck(t) ==
    /\ timers[t].phase = "send_off"
    /\ timers' = [timers EXCEPT ![t].phase =
                     IF IsConnected THEN "sending" ELSE "pop"]
    /\ UNCHANGED <<backend, connected, port, channel, active_note_timers,
                   midi_queue, wire, last_message, clock, pc, cur, sends, raw_sends, channel_sets,
                   releases, disconnected>>
    /\ UNCHANGED <<detVars, envVars, histVars, cfgVars, serverVars, orchVars>>

\* What becomes of the port object when disconnect() closes it:
\* self._midi_out = None / self._jack_client = None
PortLeftOpen == port
PortAfterDisconnect == FALSE

\* send_off(): the note-off on every channel of the key.  On rtmidi the send
\* goes through self._midi_out: if disconnect() has set it to None since the
\* test, the send raises in the timer thread and nothing is sent or popped.
\* On JACK the event is put in the queue whatever the client's state.
TimerSendOff(t) ==
    /\ timers[t].phase = "sending"
    /\ IF backend = "rtmidi" /\ ~port
       THEN /\ timers' = [timers EXCEPT ![t].phase = "raised"]
            /\ UNCHANGED <<wire, midi_queue, last_message>>
       ELSE /\ SendAll(NoteOffMessages(timers[t].note_key[1],
                                       timers[t].channels, timers[t].by))
            /\ timers' = [timers EXCEPT ![t].phase = "pop"]
    /\ UNCHANGED <<backend, connected, port, channel, active_note_timers, clock,
                   pc, cur, sends, raw_sends, channel_sets, releases, disconnected>>
    /\ UNCHANGED <<detVars, envVars, histVars, cfgVars, serverVars, orchVars>>

\* send_off(): with self._timer_lock: self._active_note_timers.pop(note_key, None);
\* then Timer.run sets finished
TimerPop(t) ==
    /\ timers[t].phase = "pop"
    /\ active_note_timers' = Without(active_note_timers, timers[t].note_key)
    /\ timers' = [timers EXCEPT ![t].phase = "done", ![t].finished = TRUE]
    /\ UNCHANGED <<backend, connected, port, channel, midi_queue, wire, last_message, clock,
                   pc, cur, sends, raw_sends, channel_sets, releases, disconnected>>
    /\ UNCHANGED <<detVars, envVars, histVars, cfgVars, serverVars, orchVars>>

\* release_notes([note]), up to the cancellation of the key's pending timer
ReleaseNotesCancel(note) ==
    /\ pc = "idle"
    /\ releases < MaxReleases
    /\ IsConnected
    /\ LET midi_note == NotationToMidi(note)
           channels == GetChannels(NoChannel)
           note_key == <<midi_note, channels>>
       IN
       /\ CancelExisting(note_key)
       /\ cur' = [midi_note |-> midi_note, channels |-> channels,
                  note_key |-> note_key]
    /\ pc' = "release_notes_off"
    /\ releases' = releases + 1
    /\ UNCHANGED <<backend, connected, port, channel, midi_queue, wire, last_message, clock,
                   sends, raw_sends, channel_sets, disconnected>>
    /\ UNCHANGED <<detVars, envVars, histVars, cfgVars, serverVars, orchVars>>

\* release_notes(): the immediate note-off on every channel
ReleaseNotesOff ==
    /\ pc = "release_notes_off"
    /\ SendAll(NoteOffMessages(cur.midi_note, cur.channels, 0))
    /\ pc' = "idle"
    /\ UNCHANGED <<backend, connected, port, channel, active_note_timers, timers,
                   clock, cur, sends, raw_sends, channel_sets, releases, disconnected>>
    /\ UNCHANGED <<detVars, envVars, histVars, cfgVars, serverVars, orchVars>>

\* The messages disconnect() sends, raw_sends on each of the 16 channels (rtmidi)
CleanupMessages ==
    UNION {{[bytes |-> <<ControlChangeStatus + ch, AllNotesOff, 0>>, by |-> 0],
            [bytes |-> <<ControlChangeStatus + ch, ResetAllControllers, 0>>,
             by |-> 0],
            [bytes |-> <<PitchBendStatus + ch, 0, PitchCenterMsb>>, by |-> 0]} :
           ch \in 0..(NumChannels - 1)}

\* disconnect(), under the lock: every timer of _active_note_timers is
\* cancelled and the dict cleared
DisconnectCancel ==
    /\ pc = "idle"
    /\ timers' = [t \in DOMAIN timers |->
                     IF \E k \in DOMAIN active_note_timers :
                            active_note_timers[k] = t
                     THEN [timers[t] EXCEPT !.finished = TRUE]
                     ELSE timers[t]]
    /\ active_note_timers' = <<>>
    /\ pc' = "disconnect_close"
    /\ UNCHANGED <<backend, connected, port, channel, midi_queue, wire,
                   last_message, clock, cur, sends, raw_sends, channel_sets, releases, disconnected>>
    /\ UNCHANGED <<detVars, envVars, histVars, cfgVars, serverVars, orchVars>>

\* disconnect(), the rest.  rtmidi: if self._midi_out: the cleanup messages
\* are sent (they silence every note), the port is closed and set to None.
\* JACK: the client is deactivated and closed, nothing is sent, the queue is
\* left as it is.  Then _connected = False.
DisconnectClose ==
    /\ pc = "disconnect_close"
    /\ IF backend = "rtmidi" /\ port /\ connected
       THEN /\ wire' = wire \cup CleanupMessages
            /\ last_message' = <<>>
       ELSE UNCHANGED <<wire, last_message>>
    /\ port' = PortAfterDisconnect
    /\ connected' = FALSE
    /\ disconnected' = TRUE
    /\ pc' = "idle"
    /\ UNCHANGED <<backend, channel, active_note_timers, timers, midi_queue,
                   clock, cur, sends, raw_sends, channel_sets, releases>>
    /\ UNCHANGED <<detVars, envVars, histVars, cfgVars, serverVars, orchVars>>

\* JackMidiBackend._process_callback: every queued event is written to the port
ProcessCallback ==
    /\ backend = "jack"
    /\ IsConnected
    /\ midi_queue # <<>>
    /\ wire' = wire \cup Range(midi_queue)
    /\ midi_queue' = <<>>
    /\ UNCHANGED <<backend, connected, port, channel, active_note_timers, timers,
                   last_message, clock, pc, cur, sends, raw_sends, channel_sets, releases, disconnected>>
    /\ UNCHANGED <<detVars, envVars, histVars, cfgVars, serverVars, orchVars>>

\* Time passes.
Tick ==
    /\ clock < MaxClock
    /\ clock' = clock + 1
    /\ UNCHANGED <<backend, connected, port, channel, active_note_timers, timers,
                   midi_queue, wire, last_message, pc, cur, sends, raw_sends, channel_sets, releases,
                   disconnected>>
    /\ UNCHANGED <<detVars, envVars, histVars, cfgVars, serverVars, orchVars>>

SendNote ==
    \E note \in SentNotes, velocity \in Velocities, duration \in Durations :
        SendNoteCancel(note, velocity, duration)
ReleaseNotes == \E note \in SentNotes : ReleaseNotesCancel(note)
TimerThread ==
    \E t \in DOMAIN timers :
        TimerWake(t) \/ TimerCheck(t) \/ TimerSendOff(t) \/ TimerPop(t)

NextMidi ==
    \/ Connect
    \/ SendNote
    \/ SendNoteOn
    \/ SendNoteSchedule
    \/ ReleaseNotes
    \/ ReleaseNotesOff
    \/ TimerThread
    \/ ProcessCallback
    \/ Tick

SpecMidi == InitMidi /\ [][NextMidi]_vars

\* The backend from connect() to disconnect(): notes are sent, their timers
\* run, and disconnect() is called at any moment.
SendHeldNote ==
    \E velocity \in Velocities, duration \in HeldDurations :
        SendNoteCancel(HeldNote, velocity, duration)

NextShutdown ==
    \/ Connect
    \/ SendHeldNote
    \/ SendNoteOn
    \/ SendNoteSchedule
    \/ TimerThread
    \/ ProcessCallback
    \/ Tick
    \/ DisconnectCancel
    \/ DisconnectClose

SpecShutdown == InitMidi /\ [][NextShutdown]_vars

\* set_channel(ch): the default channel is replaced (the same assignment in
\* both backends); channel_sets counts the calls
SetChannel(ch) ==
    /\ pc = "idle"
    /\ channel_sets < MaxChannelSets
    /\ channel' = <<ch>>
    /\ channel_sets' = channel_sets + 1
    /\ UNCHANGED <<backend, connected, port, active_note_timers, timers,
                   midi_queue, wire, last_message, clock, pc, cur, sends,
                   raw_sends, releases, disconnected>>
    /\ UNCHANGED <<detVars, envVars, histVars, cfgVars, serverVars, orchVars>>

ChannelSet == \E ch \in SetChannels : SetChannel(ch)

\* A held note sent on the default channel, which set_channel may replace
\* before.
NextChannel ==
    \/ Connect
    \/ ChannelSet
    \/ SendHeldNote
    \/ SendNoteOn
    \/ SendNoteSchedule
    \/ TimerThread
    \/ ProcessCallback
    \/ Tick

SpecChannel == InitMidi /\ [][NextChannel]_vars

\* One key played again and again, by send_note and by send_raw_note, and
\* released, while its timers run.
SendRawNote ==
    \E midi_note \in RawNotes, velocity \in Velocities,
       duration \in HeldDurations, ch \in RawChannels :
        SendRawNoteCancel(midi_note, velocity, duration, ch)
ReleaseHeldNote == ReleaseNotesCancel(HeldNote)

NextTimers ==
    \/ Connect
    \/ SendHeldNote
    \/ SendRawNote
    \/ SendNoteOn
    \/ SendNoteSchedule
    \/ ReleaseHeldNote
    \/ ReleaseNotesOff
    \/ TimerThread
    \/ ProcessCallback
    \/ Tick

SpecTimers == InitMidi /\ [][NextTimers]_vars

\* ===================================================== NoteScheduler

\* self._events[0]: an entry of the heap with the least timestamp
HeapFront(events) ==
    CHOOSE e \in events :
        \A f \in events :
            \/ sch_entries[e].timestamp < sch_entries[f].timestamp
            \/ sch_entries[e].timestamp = sch_entries[f].timestamp /\ e <= f

\* while self._events and self._events[0].cancelled: heappop
RECURSIVE CleanFront(_)
CleanFront(events) ==
    IF events # {} /\ sch_entries[HeapFront(events)].cancelled
    THEN CleanFront(events \ {HeapFront(events)})
    ELSE events

\* condition.notify() / notify_all(): a worker blocked in wait() returns from
\* it, and its continue takes it back to the test of the while loop; with no
\* thread waiting the notification is lost
Notified(worker) ==
    IF worker \in {"waiting", "timed_wait"} THEN "test" ELSE worker

\* _run: if the popped entry is the one registered for its key, it is removed
\* from _event_map
MapAfterPop(map, e) ==
    LET key == sch_entries[e].note_key
    IN IF key \in DOMAIN map /\ map[key] = e THEN Without(map, key) ELSE map

\* The entries whose callback is still to come: those of the heap that are
\* not cancelled, and the one the worker has popped and not invoked yet
Pending ==
    {e \in sch_events : ~sch_entries[e].cancelled}
        \cup (IF sch_worker \in {"check", "callback"} THEN {sch_next} ELSE {})

\* schedule(): the entry registered for the key is marked cancelled, the new
\* one registered and pushed, and the worker notified.  History: the pending
\* entries of the key at the time of the call are superseded by the new one.
Schedule(note_key, delay) ==
    /\ Len(sch_entries) < MaxSchedules
    /\ LET event == [timestamp |-> sch_clock + delay, note_key |-> note_key,
                     cancelled |-> FALSE, superseded |-> FALSE]
           id == Len(sch_entries) + 1
           marked == [e \in DOMAIN sch_entries |->
                        [sch_entries[e] EXCEPT
                            !.cancelled =
                                \/ @
                                \/ /\ note_key \in DOMAIN sch_event_map
                                   /\ sch_event_map[note_key] = e,
                            !.superseded =
                                \/ @
                                \/ /\ e \in Pending
                                   /\ sch_entries[e].note_key = note_key]]
       IN /\ sch_entries' = Append(marked, event)
          /\ sch_event_map' = With(sch_event_map, note_key, id)
          /\ sch_events' = sch_events \cup {id}
    /\ sch_worker' = Notified(sch_worker)
    /\ UNCHANGED <<sch_running, sch_next, sch_clock, sch_stop,
                   sch_join_deadline, sch_invoked>>
    /\ UNCHANGED <<detVars, envVars, histVars, midiVars, cfgVars, serverVars,
                   bendVars, confVars, midiInVars, msgVars, actVars, pktVars,
                   noteVars>>

\* cancel(): the entry registered for the key is marked cancelled and
\* unregistered; it stays in the heap
Cancel(note_key) ==
    /\ IF note_key \in DOMAIN sch_event_map
       THEN /\ sch_entries' = [sch_entries EXCEPT
                                  ![sch_event_map[note_key]].cancelled = TRUE]
            /\ sch_event_map' = Without(sch_event_map, note_key)
       ELSE UNCHANGED <<sch_entries, sch_event_map>>
    /\ UNCHANGED <<sch_running, sch_events, sch_worker, sch_next, sch_clock,
                   sch_stop, sch_join_deadline, sch_invoked>>
    /\ UNCHANGED <<detVars, envVars, histVars, midiVars, cfgVars, serverVars,
                   bendVars, confVars, midiInVars, msgVars, actVars, pktVars,
                   noteVars>>

\* stop(), under the condition: _running = False, the heap and the map are
\* cleared, notify_all(); then the join begins
StopBegin ==
    /\ sch_stop = "no"
    /\ sch_running' = FALSE
    /\ sch_events' = {}
    /\ sch_event_map' = <<>>
    /\ sch_worker' = Notified(sch_worker)
    /\ sch_stop' = "joining"
    /\ sch_join_deadline' = sch_clock + JoinTimeout
    /\ UNCHANGED <<sch_entries, sch_next, sch_clock, sch_invoked>>
    /\ UNCHANGED <<detVars, envVars, histVars, midiVars, cfgVars, serverVars,
                   bendVars, confVars, midiInVars, msgVars, actVars, pktVars,
                   noteVars>>

\* stop(): self._thread.join(timeout=1.0) returns when the worker has ended,
\* or when the timeout is over
StopReturn ==
    /\ sch_stop = "joining"
    /\ sch_worker = "exited" \/ sch_clock >= sch_join_deadline
    /\ sch_stop' = "returned"
    /\ UNCHANGED <<sch_running, sch_events, sch_event_map, sch_entries,
                   sch_worker, sch_next, sch_clock, sch_join_deadline,
                   sch_invoked>>
    /\ UNCHANGED <<detVars, envVars, histVars, midiVars, cfgVars, serverVars,
                   bendVars, confVars, midiInVars, msgVars, actVars, pktVars,
                   noteVars>>

\* _run: while self._running, tested without the lock
WorkerTest ==
    /\ sch_worker = "test"
    /\ sch_worker' = IF sch_running THEN "locked" ELSE "exited"
    /\ UNCHANGED <<sch_running, sch_events, sch_event_map, sch_entries,
                   sch_next, sch_clock, sch_stop, sch_join_deadline,
                   sch_invoked>>
    /\ UNCHANGED <<detVars, envVars, histVars, midiVars, cfgVars, serverVars,
                   bendVars, confVars, midiInVars, msgVars, actVars, pktVars,
                   noteVars>>

\* _run, with the condition held: cancelled entries are dropped from the
\* front; with an empty heap the worker waits for a notification; if the front
\* entry is not due it waits for that long; else the entry is popped,
\* unregistered, and the lock released
WorkerLocked ==
    /\ sch_worker = "locked"
    /\ LET cleaned == CleanFront(sch_events)
       IN IF cleaned = {}
          THEN /\ sch_events' = cleaned
               /\ sch_worker' = "waiting"
               /\ UNCHANGED <<sch_event_map, sch_next>>
          ELSE LET next_event == HeapFront(cleaned)
                   wait_time == sch_entries[next_event].timestamp - sch_clock
               IN IF wait_time > 0
                  THEN /\ sch_events' = cleaned
                       /\ sch_next' = next_event
                       /\ sch_worker' = "timed_wait"
                       /\ UNCHANGED sch_event_map
                  ELSE /\ sch_events' = cleaned \ {next_event}
                       /\ sch_next' = next_event
                       /\ IF sch_entries[next_event].cancelled
                          THEN /\ sch_worker' = "test"
                               /\ UNCHANGED sch_event_map
                          ELSE /\ sch_event_map' =
                                      MapAfterPop(sch_event_map, next_event)
                               /\ sch_worker' = "check"
    /\ UNCHANGED <<sch_running, sch_entries, sch_clock, sch_stop,
                   sch_join_deadline, sch_invoked>>
    /\ UNCHANGED <<detVars, envVars, histVars, midiVars, cfgVars, serverVars,
                   bendVars, confVars, midiInVars, msgVars, actVars, pktVars,
                   noteVars>>

\* _run: condition.wait(timeout=wait_time) returns when the time is over
WorkerTimeout ==
    /\ sch_worker = "timed_wait"
    /\ sch_clock >= sch_entries[sch_next].timestamp
    /\ sch_worker' = "test"
    /\ UNCHANGED <<sch_running, sch_events, sch_event_map, sch_entries,
                   sch_next, sch_clock, sch_stop, sch_join_deadline,
                   sch_invoked>>
    /\ UNCHANGED <<detVars, envVars, histVars, midiVars, cfgVars, serverVars,
                   bendVars, confVars, midiInVars, msgVars, actVars, pktVars,
                   noteVars>>

\* _run, outside the lock: if not next_event.cancelled
WorkerCheck ==
    /\ sch_worker = "check"
    /\ sch_worker' = IF sch_entries[sch_next].cancelled THEN "test"
                     ELSE "callback"
    /\ UNCHANGED <<sch_running, sch_events, sch_event_map, sch_entries,
                   sch_next, sch_clock, sch_stop, sch_join_deadline,
                   sch_invoked>>
    /\ UNCHANGED <<detVars, envVars, histVars, midiVars, cfgVars, serverVars,
                   bendVars, confVars, midiInVars, msgVars, actVars, pktVars,
                   noteVars>>

\* _run: next_event.callback(); the history keeps whether the entry had been
\* superseded by then, and whether stop() had returned
WorkerCallback ==
    /\ sch_worker = "callback"
    /\ sch_invoked' = Append(sch_invoked,
                             [entry |-> sch_next,
                              superseded |-> sch_entries[sch_next].superseded,
                              stopped |-> sch_stop = "returned"])
    /\ sch_worker' = "test"
    /\ UNCHANGED <<sch_running, sch_events, sch_event_map, sch_entries,
                   sch_next, sch_clock, sch_stop, sch_join_deadline>>
    /\ UNCHANGED <<detVars, envVars, histVars, midiVars, cfgVars, serverVars,
                   bendVars, confVars, midiInVars, msgVars, actVars, pktVars,
                   noteVars>>

\* time.time() advances
SchedTick ==
    /\ sch_clock < MaxSchedClock
    /\ sch_clock' = sch_clock + 1
    /\ UNCHANGED <<sch_running, sch_events, sch_event_map, sch_entries,
                   sch_worker, sch_next, sch_stop, sch_join_deadline,
                   sch_invoked>>
    /\ UNCHANGED <<detVars, envVars, histVars, midiVars, cfgVars, serverVars,
                   bendVars, confVars, midiInVars, msgVars, actVars, pktVars,
                   noteVars>>

ScheduleCalled ==
    \E note_key \in SchedKeys, delay \in SchedDelays :
        Schedule(note_key, delay)
CancelCalled == \E note_key \in SchedKeys : Cancel(note_key)
Worker ==
    \/ WorkerTest
    \/ WorkerLocked
    \/ WorkerTimeout
    \/ WorkerCheck
    \/ WorkerCallback

NextSched ==
    \/ ScheduleCalled
    \/ CancelCalled
    \/ StopBegin
    \/ StopReturn
    \/ Worker
    \/ SchedTick

\* start() has been called
InitSched ==
    /\ InitDetector
    /\ InitEnv
    /\ InitBackend("rtmidi", NoChannel)
    /\ InitServer
    /\ InitPitchBend(0)
    /\ InitConfig(NoChord)
    /\ InitMidiInput
    /\ InitNoTranspose
    /\ InitScheduler(TRUE)

\* The worker thread and the thread in stop() are scheduled fairly; nothing
\* obliges the callers to call schedule() or cancel() again.
SpecSched ==
    /\ InitSched
    /\ [][NextSched]_vars
    /\ WF_vars(Worker)
    /\ WF_vars(StopReturn)
    /\ WF_vars(SchedTick)

\* ===================================================== NoteObject.transpose

\* list.index(notation): <<i>> for the 0-based position, <<>> for ValueError
ListIndex(list, notation) ==
    IF \E i \in 1..Len(list) : list[i] = notation
    THEN <<(CHOOSE i \in 1..Len(list) : list[i] = notation) - 1>>
    ELSE <<>>

\* the index transpose and to_midi give a notation: its place among the sharp
\* spellings, else among the flat ones, else 0
NoteIndex(notation) ==
    IF ListIndex(SharpNotations, notation) # <<>>
    THEN ListIndex(SharpNotations, notation)[1]
    ELSE IF ListIndex(FlatNotations, notation) # <<>>
    THEN ListIndex(FlatNotations, notation)[1]
    ELSE 0

\* '#' in notation, 'b' in notation
HasSharpSign(notation) ==
    notation \in {"C#", "D#", "F#", "G#", "A#", "B#", "E#"}
HasFlatSign(notation) ==
    notation \in {"Db", "Eb", "Gb", "Ab", "Bb", "Cb", "Fb"}

\* NoteObject.to_midi
ToMidi(note) == note.octave * SemitonesPerOctave + NoteIndex(note.notation)

\* NoteObject.transpose: through the MIDI number and back; the result is
\* spelled with a flat only if the original notation has one
NoteTransposeAlwaysFlat(note, semitones) ==
    IF semitones = 0 THEN note
    ELSE LET transposed_midi == ToMidi(note) + semitones
         IN [notation |-> FlatNotations[(transposed_midi % SemitonesPerOctave) + 1],
             octave |-> transposed_midi \div SemitonesPerOctave,
             secondary |-> note.secondary]
NoteTranspose(note, semitones) ==
    IF semitones = 0 THEN note
    ELSE LET midi_number == note.octave * SemitonesPerOctave
                                + NoteIndex(note.notation)
             transposed_midi == midi_number + semitones
             new_octave == transposed_midi \div SemitonesPerOctave
             new_note_index == transposed_midi % SemitonesPerOctave
             new_notation ==
                 IF HasSharpSign(note.notation)
                 THEN SharpNotations[new_note_index + 1]
                 ELSE IF HasFlatSign(note.notation)
                 THEN FlatNotations[new_note_index + 1]
                 ELSE SharpNotations[new_note_index + 1]
         IN [notation |-> new_notation, octave |-> new_octave,
             secondary |-> note.secondary]

\* note.transpose(semitones), and the result transposed by -semitones
TransposeThere ==
    /\ tr_there = <<>>
    /\ tr_there' = <<NoteTranspose(tr_note, tr_semitones)>>
    /\ UNCHANGED <<tr_note, tr_semitones, tr_back>>
    /\ UNCHANGED <<detVars, envVars, histVars, midiVars, cfgVars, serverVars,
                   bendVars, confVars, midiInVars, msgVars, actVars, pktVars,
                   schedVars>>

TransposeBack ==
    /\ tr_there # <<>>
    /\ tr_back = <<>>
    /\ tr_back' = <<NoteTranspose(tr_there[1], 0 - tr_semitones)>>
    /\ UNCHANGED <<tr_note, tr_semitones, tr_there>>
    /\ UNCHANGED <<detVars, envVars, histVars, midiVars, cfgVars, serverVars,
                   bendVars, confVars, midiInVars, msgVars, actVars, pktVars,
                   schedVars>>

NextTranspose ==
    \/ TransposeThere
    \/ TransposeBack

InitTranspose ==
    /\ InitDetector
    /\ InitEnv
    /\ InitBackend("rtmidi", NoChannel)
    /\ InitServer
    /\ InitPitchBend(0)
    /\ InitConfig(NoChord)
    /\ InitMidiInput
    /\ \E notation \in Range(SharpNotations) \cup Range(FlatNotations)
                          \cup Range(OddNotations),
          octave \in TransposeOctaves, secondary \in BOOLEAN :
           tr_note = [notation |-> notation, octave |-> octave,
                      secondary |-> secondary]
    /\ tr_semitones \in TransposeSemitones
    /\ InitNoScheduler
    /\ tr_there = <<>>
    /\ tr_back = <<>>

SpecTranspose == InitTranspose /\ [][NextTranspose]_vars

\* ======================================================= backend claims

IsNoteOn(message) == message.bytes[1] \div NumChannels = NoteOnStatus \div NumChannels
IsNoteOff(message) == message.bytes[1] \div NumChannels = NoteOffStatus \div NumChannels

\* <<note, channel>> pairs a key covers
Slots(midi_note, channels) ==
    {<<midi_note, channels[i] % NumChannels>> : i \in DOMAIN channels}

\* The last message accepted for the slot is a note-on: the note is sounding,
\* or will be once the queue is drained.
Sounding(slot) ==
    slot \in DOMAIN last_message /\ IsNoteOn(last_message[slot])

\* A note-off for the slot is still to come: from a timer that waits
\* uncancelled or is about to send, or from the call in progress.
OffOwed(slot) ==
    \/ \E t \in DOMAIN timers :
        /\ slot \in Slots(timers[t].note_key[1], timers[t].channels)
        /\ \/ timers[t].phase = "wait" /\ ~timers[t].finished
           \/ timers[t].phase \in {"send_off", "sending"}
    \/ /\ pc # "idle"
       /\ slot \in Slots(cur.midi_note, cur.channels)

\* C1: no stuck notes: every note that send_note() switched on, on a connected
\* backend, has its note-off delivered or still to come (by its timer, or by
\* the call that superseded it); no key is left sounding forever.
C1_NoStuckNotes ==
    connected => \A slot \in DOMAIN last_message : Sounding(slot) => OffOwed(slot)

C13_DisconnectCleanup ==
    [][(connected /\ disconnected')
          => /\ CleanupMessages \subseteq wire'
             /\ \A t \in DOMAIN timers' :
                    timers'[t].phase = "wait" => timers'[t].finished]_vars

\* C14: subscription gating: while the client set is empty, no flushed
\* combined event is handed to a listener or broadcast, whatever is emitted.
C14_SubscriptionGating ==
    [][clients = {} => (handed' = handed /\ broadcasts' = broadcasts)]_vars

\* C15: pause and resume follow the subscriber count: the bus is paused
\* whenever the client set becomes empty, by a disconnect or by eviction, and
\* resumed when the first client connects.
C15_PauseFollowsCount ==
    [][/\ (clients # {} /\ clients' = {}) => paused'
       /\ (clients = {} /\ clients' # {}) => ~paused']_vars

\* C16: coalescing: a flush hands the listener one copy that carries, per
\* slot, only the most recent payload emitted since the previous flush (the
\* tablet slot keeps its last payload, the strum slot is empty if no strum
\* was emitted), and hands nothing if nothing was emitted since.
C16_Coalescing ==
    [][/\ broadcasts' # broadcasts =>
             /\ broadcasts' = broadcasts + 1
             /\ handed' = handed + 1
             /\ last_broadcast'.data = last_handed'
       /\ handed' # handed =>
          /\ handed' = handed + 1
          /\ since_flush.tablet # <<>> \/ since_flush.strum # <<>>
          /\ last_handed'.tablet =
                 IF since_flush.tablet # <<>>
                 THEN <<since_flush.tablet[Len(since_flush.tablet)]>>
                 ELSE last_handed.tablet
          /\ last_handed'.strum =
                 IF since_flush.strum # <<>>
                 THEN <<since_flush.strum[Len(since_flush.strum)]>>
                 ELSE <<>>]_vars

\* emit_tablet_event(a); emit_tablet_event(b) and then a flush that was
\* broadcast carrying b only.
C16_Witness ==
    /\ last_coalesced.tablet = <<"a", "b">>
    /\ last_handed.tablet = <<"b">>
    /\ last_broadcast.data = last_handed
    /\ last_broadcast.to # {}
    /\ broadcasts = 1

\* C17: over the 1,000 frames of scenario S4, whose mapped bend is strictly
\* increasing, at most 6 pitch-bend messages are sent (100 ms / 20 ms + 1).
C17_S4_PitchBendThrottle == pitch_bends_sent <= 6

\* The configuration after the step, and an update-config of the upper note
\* spread to 5 having been handled in the step
ConfigAfter ==
    StrummingConfig(initial_notes', chord', lower_note_spread',
                    upper_note_spread')
UpperSpreadSetTo5 ==
    /\ updates' # updates
    /\ last_update' = <<[path |-> "upperNoteSpread", value |-> 5]>>

HeldNotes(note_strs) ==
    FillNoteSpread([i \in 1..Len(note_strs) |-> ParseNotation(note_strs[i])],
                   lower_note_spread, upper_note_spread)

\* C19: a 'removed' event does not change the strummer's notes, and its timer
\* runs out no sooner than 100 ms later; then, if a note is still held, the
\* held set is applied, and if none is held the notes stay as they are.
C19_DebouncedRelease ==
    [][/\ (midi_step' # midi_step /\ midi_step'.kind = "removed")
          => (notes' = notes /\ debounce_timer'[1] >= wall + DebounceTicks)
       /\ (midi_step' # midi_step /\ midi_step'.kind = "expired")
          => /\ wall >= debounce_timer[1]
             /\ notes' = notes
             /\ held = <<>> => debounce_read' = <<>>
       /\ (midi_step' # midi_step /\ midi_step'.kind = "applied")
          => notes' = HeldNotes(midi_step'.notes)]_vars

\* C20: on an 'added' event the strummer's notes become the notes of the
\* event's held-note list, whatever is configured.
C20_AddedReplacesNotes ==
    [][(midi_step' # midi_step /\ midi_step'.kind = "added")
          => notes' = HeldNotes(midi_step'.notes)]_vars

\* C21: handling an update-config whose path names no settable field changes
\* nothing of the configuration or the detector, and the session stays open.
C21_BadPathNoChange ==
    [][(updates' # updates /\ last_update'[1].path = "bad")
          => /\ UNCHANGED <<initial_notes, chord, lower_note_spread,
                            upper_note_spread, to_dict_shadowed>>
             /\ UNCHANGED detVars
             /\ UNCHANGED <<clients, client_phase>>]_vars

\* C22: handling a message that is no valid JSON, or no protocol message
\* object, closes no session and changes no server state.
C22_MalformedIgnored ==
    [][client_messages' # client_messages
          => /\ UNCHANGED <<clients, client_phase, busVars>>
             /\ UNCHANGED <<detVars, confVars>>]_vars

\* The state the actions mutate
MutableByActions ==
    <<notes, repeater_active, transpose_active, transpose_semitones,
      progression_state>>

\* C23: every executed action that mutates state emits config_changed, and
\* the mutation leads to a config broadcast.
C23_MutationEmitsConfigChanged ==
    [][(actions_executed' # actions_executed
           /\ MutableByActions' # MutableByActions)
          => signals'.config_changed = signals.config_changed + 1]_vars

C25_RoundTrip_AsStated ==
    tr_back # <<>> => tr_back[1] = tr_note

\* C25, amended: transposing a note by k semitones and the result by -k gives
\* a note with the same MIDI number and secondary flag, and the note itself if
\* its notation is one of the sharp spellings (naturals included).
C25_RoundTrip ==
    tr_back # <<>>
        => /\ ToMidi(tr_back[1]) = ToMidi(tr_note)
           /\ tr_back[1].secondary = tr_note.secondary
           /\ tr_note.notation \in Range(SharpNotations) => tr_back[1] = tr_note

\* a secondary F#9 taken up an octave and a semitone, and back down
C25_Witness ==
    /\ tr_back # <<>>
    /\ tr_note = [notation |-> "F#", octave |-> 9, secondary |-> TRUE]
    /\ tr_semitones = MaxSemitones
    /\ tr_there[1].notation = "G"
    /\ tr_there[1].octave = 10
    /\ tr_back[1] = tr_note

\* The timers of a key that are started and neither cancelled nor finished
ActiveTimers(note_key) ==
    {t \in DOMAIN timers : /\ timers[t].note_key = note_key
                           /\ ~timers[t].finished
                           /\ timers[t].phase \notin {"done", "raised"}}

\* C26: at every instant, every key has at most one active note-off timer.
C26_OneActiveTimerPerKey ==
    \A t \in DOMAIN timers : Cardinality(ActiveTimers(timers[t].note_key)) <= 1

\* C28: the heap holds at most one entry per key that is not cancelled, and
\* the callback of an entry is not invoked once a schedule() for its key has
\* returned.
C28_ScheduleReplaces ==
    /\ \A note_key \in SchedKeys :
           Cardinality({e \in sch_events :
                           /\ sch_entries[e].note_key = note_key
                           /\ ~sch_entries[e].cancelled}) <= 1
    /\ \A i \in DOMAIN sch_invoked : ~sch_invoked[i].superseded

\* C29: once stop() has been called, the worker thread terminates.
C29_StopTerminatesWorker ==
    (sch_stop # "no") ~> (sch_worker = "exited")

\* The timers whose note-off is pending: started, not cancelled, and the
\* note-off not sent yet
PendingOff ==
    {t \in DOMAIN timers : /\ ~timers[t].finished
                           /\ timers[t].phase \in {"wait", "send_off", "sending"}}

\* C27: note-offs are delivered in deadline order: a timer's note-off is not
\* sent while the note-off of a timer with an earlier deadline is pending.
C27_DeadlineOrder ==
    [][\A t \in PendingOff :
          (timers[t].phase = "sending" /\ timers'[t].phase = "pop")
             => \A u \in PendingOff :
                    timers[u].deadline >= timers[t].deadline]_vars

\* C2: cancel and replace: the note-off that follows the note-on of a
\* send_note() call on the wire never comes from the timer of an earlier
\* send_note() call for the key (whose pending note-off the call cancelled).
C2_CancelAndReplace ==
    [][\A slot \in DOMAIN last_message :
          (/\ IsNoteOn(last_message[slot])
           /\ IsNoteOff(last_message'[slot])
           /\ last_message'[slot].by # 0)
             => last_message'[slot].by >= last_message[slot].by]_vars

\* =================================================== strum detector claims

\* C3: threshold monotonicity: no strum() call whose pressure is below
\* pressure_threshold returns a Strum.
C3_ThresholdMonotonicity ==
    (now > 0 /\ call.pressure < pressure_threshold) => ret.type # "strum"

\* A call below the threshold made while a tap was being buffered.
C3_Witness ==
    /\ now >= 3
    /\ call.pressure > 0
    /\ call.pressure < pressure_threshold
    /\ ret.type = "none"

\* C30: a call at or above the threshold whose string index i differs from
\* last_strummed_index = p, p not -1, returns a strum of exactly the strings
\* after p up to and including i, in the order of the motion, and leaves
\* last_strummed_index = i.
C30_StringCrossing ==
    [][(/\ now' # now
        /\ call'.pressure >= pressure_threshold
        /\ last_strummed_index # -1
        /\ call'.index # last_strummed_index)
          => LET p == last_strummed_index
                 i == call'.index
                 crossed == IF i > p THEN i - p ELSE p - i
             IN /\ ret'.type = "strum"
                /\ Len(ret'.notes) = crossed
                /\ \A k \in 1..crossed :
                       ret'.notes[k].note =
                           notes[(IF i > p THEN p + k ELSE p - k) + 1]
                /\ last_strummed_index' = i]_vars

\* a strum from the first string across to the last one, and one back
C30_Witness ==
    /\ ret.type = "strum"
    /\ Len(ret.notes) = 2
    /\ last_strummed_index = 0
    /\ ret.notes[1].note = E4
    /\ ret.notes[2].note = C4

\* C11: the detector cannot fail: no strum() call raises, also when the notes
\* are replaced by a sequence of another length or the threshold is
\* reconfigured to a value in (0, 1] between calls.
C11_StrumNeverRaises == ret.type # "raise"

\* C4: single strum per tap: once a Strum has been returned in a press (the
\* initial tap), every further Strum before the pressure falls below the
\* threshold is returned by a call whose string index differs from
\* last_strummed_index.
C4_SingleStrumPerTap ==
    [][(strummed_in_press /\ ret'.type = "strum")
          => (last_strummed_index # -1 /\ call'.index # last_strummed_index)]_vars

\* After the tap, a call on the same string with the pen still down returned
\* nothing.
C4_Witness ==
    /\ strummed_in_press
    /\ call.pressure >= pressure_threshold
    /\ call.index = last_strummed_index
    /\ ret.type = "none"

\* C5: release completeness: after a Strum, the first later call whose pressure
\* is below the threshold returns a Release carrying the last strum velocity,
\* and no second Release is returned before the next Strum.
C5_ReleaseCompleteness ==
    /\ [](releases_since_strum <= 1)
    /\ [][(strum_owed /\ call'.pressure < pressure_threshold)
             => (ret' = ReleaseEvent(last_strum_velocity) /\ ~strum_owed')]_vars

\* A Release has been returned for a tap followed by a crossing strum.
C5_Witness ==
    /\ ret.type = "release"
    /\ releases_since_strum = 1
    /\ ret.velocity = CrossVelocity(Unit)

\* C6: no spurious release: a call returns Release only if a Strum was returned
\* since the previous Release (or since start); a press that ends before its
\* tap is emitted returns None.
C6_NoSpuriousRelease ==
    [][/\ ret'.type = "release" => strum_owed
       /\ (~strum_owed /\ call'.pressure < pressure_threshold) => ret' = None]_vars

\* The pen crossed the threshold and dropped back before the tap was emitted.
C6_Witness ==
    /\ now >= 2
    /\ call.pressure < pressure_threshold
    /\ last_timestamp = now
    /\ last_x # -Unit
    /\ ~strum_owed
    /\ releases_since_strum = 0
    /\ ret = None

\* C7: velocity bounds: every velocity of a returned Strum, from the initial
\* tap or from a string-crossing burst, is an integer in 20..127.
C7_VelocityBounds ==
    ret.type = "strum" =>
        \A k \in 1..Len(ret.notes) :
            ret.notes[k].velocity \in VelocityFloor..VelocityCeil

\* A two-string crossing burst whose pressure maps below the floor.
C7_Witness ==
    /\ ret.type = "strum"
    /\ Len(ret.notes) = 2
    /\ (call.pressure * VelocityCeil) \div Unit < VelocityFloor

C31_PendingTapInvariant ==
    pending_tap_index # -1 =>
        /\ Len(pressure_buffer) < buffer_max_samples
        /\ last_strummed_index = -1

\* C32: in every reachable detector state, a strum in progress
\* (last_strummed_index # -1) means the last pressure seen is at or above
\* the threshold.
C32_StrummedAboveThreshold ==
    last_strummed_index # -1 => last_pressure >= pressure_threshold

\* C37: whatever configure() did to the threshold between two calls, a call
\* whose pressure is below the threshold in force at that call does not
\* return a strum.
C37_NoStrumBelowThresholdInForce ==
    [][(now' # now /\ call'.pressure < pressure_threshold')
           => ret'.type # "strum"]_vars

\* ------------------------------------------------- actions and spreads
\* C33: when set-strum-notes, set-strum-chord or a progression action
\* replaces the detector's notes, the detector receives the parsed base notes
\* expanded with the configuration's current lower and upper spreads:
\* |base| + lower_note_spread + upper_note_spread notes.
C33_ActionsSpreadExpand ==
    [][(actions_executed' # actions_executed
           /\ signals'.notes_changed # signals.notes_changed)
          => Len(notes') =
                 Cardinality({i \in DOMAIN notes' : ~notes'[i].secondary})
                     + lower_note_spread + upper_note_spread]_vars

\* ------------------------------------------------- channel numbering
\* C34: channel numbers are 0-based in both backends: with the default
\* channel set to ch by set_channel(ch), the note-on that send_note emits
\* has the status byte 0x90 + ch, on rtmidi and on JACK.
C34_ChannelsZeroBased ==
    [][(pc = "send_note_on" /\ pc' = "send_note_schedule"
           /\ channel_sets > 0)
          => \A m \in (wire' \ wire) \cup
                      (Range(midi_queue') \ Range(midi_queue)) :
                 m.bytes[1] = NoteOnStatus + channel[1]]_vars

\* ------------------------------------------------- bus and client set
\* C35: whenever the client set is non-empty the event bus is not paused,
\* however client connects, client disconnects and evictions by a broadcast
\* interleave.
C35_ClientsImplyRunning == clients # {} => ~paused

\* A client was evicted by a broadcast while its session still runs, and
\* another client is in the set.
C35_Witness ==
    /\ clients # {}
    /\ ~paused
    /\ broadcasts > 0
    /\ \E c \in ClientIds : client_phase[c] = "open" /\ c \notin clients

\* ------------------------------------------------- strums while paused
\* C36 as stated: a strum payload emitted while the bus is paused is never
\* delivered to a client that connects later: no flush broadcasts to a client
\* a copy whose strum was emitted while the bus was paused.
C36_PausedStrumDropped_AsStated ==
    [][(broadcasts' # broadcasts /\ last_broadcast'.to # {})
          => ~strum_emitted_paused'.handed]_vars

\* C36: a strum payload emitted while the bus is paused stays in the strum
\* slot until a later strum overwrites it or a flush takes it; the first
\* flush after resume hands it to the listener, which broadcasts it to the
\* clients connected then.
C36_PausedStrumKept ==
    [][/\ strum_emitted_paused.buffered
          => bus_buffer.strum = <<since_flush.strum[Len(since_flush.strum)]>>
       /\ (handed' # handed /\ strum_emitted_paused.buffered)
          => /\ last_handed'.strum = bus_buffer.strum
             /\ clients # {}
                    => /\ broadcasts' = broadcasts + 1
                       /\ last_broadcast'.data.strum = bus_buffer.strum]_vars

\* A client that connected after the strum was emitted has been sent it.
C36_Witness ==
    /\ strum_emitted_paused.handed
    /\ last_handed.strum # <<>>
    /\ last_broadcast.data = last_handed
    /\ last_broadcast.to # {}

\* ------------------------------------------------- sessions and the set
\* C38: when a client's session handler ends for any reason, also by a
\* failure while the initial config, status or MIDI-input-status message is
\* sent, the client is removed from the set and the bus is paused if the set
\* becomes empty: every member of the set has a running handler.
C38_EndedSessionLeavesSet ==
    [][\A c \in ClientIds :
           (client_phase[c] \in {"initial", "open"}
               /\ client_phase'[c] \in {"aborted", "closed"})
           => /\ c \notin clients'
              /\ clients' = {} => paused']_vars

\* ------------------------------------------------- MIDI input, settled
\* C39: once every MIDI-input event and debounce timer has been processed
\* and a note is still held, the strummer's notes are the ones derived from
\* the held-note set, however the note events and a firing debounce timer
\* interleave.
C39_NotesFollowHeldSet ==
    (/\ midi_events > 0
     /\ debounce_timer = <<>>
     /\ debounce_read = <<>>
     /\ port_events = {}
     /\ held # <<>>)
    => notes = HeldNotes(held)

\* ------------------------------------------------- repeated note-on
\* C40: a note-on for a note that is already held leaves the held set as it
\* is and raises no error, in the rtmidi input bridge as in the JACK one.
C40_RepeatedNoteOnIgnored ==
    [][(midi_events' # midi_events
           /\ midi_step'.kind \in {"repeated", "raise"})
          => (held' = held /\ midi_step'.kind = "repeated")]_vars

====
